---------------------------- MODULE Spec2Model ----------------------------
(***************************************************************************)
(* Model of the GitHubIssue operator of controller_exercise.               *)
(*                                                                         *)
(* The reconcile state machine (GitHubIssueReconciler.Reconcile), the      *)
(* in-memory issue provider it talks to (MockProvider) and the part of the *)
(* control-plane store it reads and writes are modelled.  One Reconcile    *)
(* call is one action: reconciling a key is serialised by the work queue,  *)
(* and a write that races with another writer shows up here as a failed    *)
(* store write (a conflict).  Remote calls and store writes may fail; the  *)
(* failure of one attempt is the input f of the action.  Reads of the      *)
(* store answer from its current content.                                  *)
(*                                                                         *)
(* One GitHubIssue object under one name is followed from its creation to  *)
(* its removal; the provider serves that object alone.                     *)
(*                                                                         *)
(* The namespace labeler (main.go) is the second program of the            *)
(* repository: event handlers feed a rate-limiting work queue, and the     *)
(* worker loop drains it into reconcile.  It has its own specification,    *)
(* LabelerSpec; each specification leaves the other program's variables    *)
(* at their initial values.                                                *)
(*                                                                         *)
(* Two parts of the operator are also run on their own: the MockProvider   *)
(* called by several goroutines at once (ProviderSpec), where the locking  *)
(* of its methods shows, and labelsMatch applied to label lists of every   *)
(* shape (LabelsMatchSpec).                                                *)
(***************************************************************************)
EXTENDS Integers, Sequences, FiniteSets, TLC

VARIABLES
    store,       \* GitHubIssue objects in the store, by namespaced name
    secrets,     \* Secret objects of the namespace, by name
    mock,        \* the MockProvider: issues, nextNumber and the call counters
    result,      \* ctrl.Result returned by the last Reconcile
    err,         \* error returned by the last Reconcile (Nil when none)
    trace,       \* remote calls and store writes of the last Reconcile, in order
    attempts,    \* number of Reconcile calls made so far
    queue,       \* labeler: the rate-limiting work queue
    clientset,   \* labeler: the Namespaces of the API server, by name
    lister,      \* labeler: the informer cache the lister reads, by name
    workers,     \* labeler: each worker's place in the worker loop
    userOps,     \* labeler: number of changes made by users of the cluster
    mu,          \* MockProvider.mu, the sync.RWMutex of the provider
    callers,     \* goroutines calling the MockProvider: each one's place in its call
    callsMade,   \* calls the MockProvider has served so far, per operation
    callArgs,    \* arguments given to the function applied on its own
    callRet,     \* what that function returned
    websites,    \* Website objects in the store, by namespaced name
    deployments, \* Deployments of the cluster, by namespaced name
    services,    \* Services of the cluster, by namespaced name
    outcome,     \* what the last Reconcile of a Website returned and called
    reconciles   \* number of Reconcile calls made on Websites so far

\* the variables of the GitHubIssue operator and of the namespace labeler
issueVars == <<store, secrets, mock, result, err, trace, attempts>>
labelerVars == <<queue, clientset, lister, workers, userOps>>
\* the goroutines that call the MockProvider directly, and the function
\* applied on its own
providerVars == <<mu, callers, callsMade>>
pureVars == <<callArgs, callRet>>
\* the variables of the Website operator
websiteVars == <<websites, deployments, services, outcome, reconciles>>

vars == <<store, secrets, mock, result, err, trace, attempts,
          queue, clientset, lister, workers, userOps,
          mu, callers, callsMade, callArgs, callRet,
          websites, deployments, services, outcome, reconciles>>

---------------------------------------------------------------------------
(* Bounds of the model *)

\* Reconcile calls in one behaviour
MaxAttempts == 4
\* spec edits (metadata.generation) one object goes through
MaxGeneration == 2
\* labeler: workers running the worker loop (main runs it once; more of them
\* stand for a driver that starts the same loop several times)
NumWorkers == 2
\* labeler: consecutive failures the rate limiter counts for one key
MaxFailures == 1
\* labeler: changes the users make to the Namespaces
MaxUserOps == 1
\* goroutines that call the MockProvider at the same time
NumCallers == 2
\* calls made to the MockProvider in one behaviour
MaxCalls == 3
\* longest label list given to labelsMatch
MaxLen == 3
\* replicas a Website may ask for
MaxReplicas == 1
\* Reconcile calls on Websites in one behaviour
MaxReconciles == 3

---------------------------------------------------------------------------
(* Values *)

githubIssueFinalizer == "issues.github.example.com/cleanup"
\* a finalizer owned by somebody else
otherFinalizer == "example.com/other"

namespacedName == "default/test-issue"
Keys == {namespacedName}

repo == "owner/repo"
Repos == {repo}

Nil == "nil"

\* seconds
RequeueShort == 30
RequeuePeriodic == 300

\* A Go []string: nil and the empty non-nil slice are different values.
NilSlice == [isNil |-> TRUE, elems |-> <<>>]
Slice(s) == [isNil |-> FALSE, elems |-> s]

LabelNames == {"bug", "ui"}
\* lexicographic order of the label strings, as sort.Strings sees them
StrRank(s) == IF s = "bug" THEN 1 ELSE 2
LabelSlices == {NilSlice, Slice(<<"bug", "ui">>), Slice(<<"ui", "bug">>)}

Titles == {"Test Issue", "Updated Title"}
Bodies == {"", "This is a test issue"}
SecretNames == {"github-token", "no-token-secret", "nonexistent-secret"}

\* GitHubIssueSpec
GitHubIssueSpecs ==
    [Repo : Repos, Title : Titles, Body : Bodies, Labels : LabelSlices,
     TokenSecretRef : SecretNames]

\* fmt.Sprintf("https://github.com/%s/issues/%d", repo, number)
IssueURLOf(r, n) == [repo |-> r, number |-> n]
NoURL == [repo |-> "", number |-> 0]

\* the zero GitHubIssueStatus
ZeroStatus == [IssueNumber |-> 0, IssueURL |-> NoURL, State |-> ""]

\* ctrl.Result
EmptyResult == [Requeue |-> FALSE, RequeueAfter |-> 0]
RequeueNow == [Requeue |-> TRUE, RequeueAfter |-> 0]
RequeueAfter(d) == [Requeue |-> FALSE, RequeueAfter |-> d]

\* The operations of one Reconcile attempt that can fail: the two store writes
\* and the five remote calls.  Every failure ends the attempt, so an attempt
\* meets at most one; f names the operation that fails, or NoFault.
NoFault == "none"
FaultOps == {"Update", "StatusUpdate", "Create", "Get", "ProviderUpdate", "Close", "Reopen"}
Faults == [op : FaultOps \cup {NoFault}]
Fails(f, op) == f.op = op

Call(op, ok) == [op |-> op, ok |-> ok]
\* a remote call recorded with the input it carried
CallWith(op, ok, input) == [op |-> op, ok |-> ok, input |-> input]

---------------------------------------------------------------------------
(* labelsMatch *)

RECURSIVE Insert(_, _)
Insert(x, s) ==
    IF s = <<>> THEN <<x>>
    ELSE IF StrRank(x) <= StrRank(Head(s)) THEN <<x>> \o s
    ELSE <<Head(s)>> \o Insert(x, Tail(s))

RECURSIVE SortStrings(_)
SortStrings(s) == IF s = <<>> THEN <<>> ELSE Insert(Head(s), SortStrings(Tail(s)))

\* mutant: the slices are compared element by element, in order
labelsMatch_Ordered(a, b) == a.elems = b.elems

labelsMatch(a, b) ==
    IF Len(a.elems) # Len(b.elems) THEN FALSE
    ELSE SortStrings(a.elems) = SortStrings(b.elems)

---------------------------------------------------------------------------
(* MockProvider *)

NewMockProvider ==
    [issues |-> [k \in {} |-> 0], nextNumber |-> 1,
     CreateCalled |-> 0, GetCalled |-> 0, UpdateCalled |-> 0, CloseCalled |-> 0]

issueKey(r, number) == <<r, number>>

NoIssue == [Number |-> 0, URL |-> NoURL, State |-> "", Title |-> "", Body |-> "",
            Labels |-> NilSlice]

\* m.issues[key] = issue
PutIssue(issues, key, issue) ==
    [k \in DOMAIN issues \cup {key} |-> IF k = key THEN issue ELSE issues[k]]

\* overrideErr: CreateFunc is installed and returns an error
MockCreate(m, input, overrideErr) ==
    LET m1 == [m EXCEPT !.CreateCalled = @ + 1]
    IN  IF overrideErr THEN [m |-> m1, ret |-> NoIssue, err |-> TRUE]
        ELSE LET issue == [Number |-> m1.nextNumber,
                           URL |-> IssueURLOf(input.Repo, m1.nextNumber),
                           State |-> "open",
                           Title |-> input.Title,
                           Body |-> input.Body,
                           Labels |-> input.Labels]
             IN  [m |-> [m1 EXCEPT
                           !.issues = PutIssue(@, issueKey(input.Repo, m1.nextNumber), issue),
                           !.nextNumber = @ + 1],
                  ret |-> issue, err |-> FALSE]

MockGet(m, r, issueNumber, overrideErr) ==
    LET m1 == [m EXCEPT !.GetCalled = @ + 1]
    IN  IF overrideErr THEN [m |-> m1, ret |-> NoIssue, err |-> TRUE]
        ELSE IF issueKey(r, issueNumber) \notin DOMAIN m1.issues
             THEN [m |-> m1, ret |-> NoIssue, err |-> TRUE]
        ELSE [m |-> m1, ret |-> m1.issues[issueKey(r, issueNumber)], err |-> FALSE]

\* mutant: an empty label list is taken as no list at all
MockUpdate_EmptyKeepsLabels(m, r, issueNumber, input, overrideErr) ==
    LET m1 == [m EXCEPT !.UpdateCalled = @ + 1]
        key == issueKey(r, issueNumber)
    IN  IF overrideErr THEN [m |-> m1, ret |-> NoIssue, err |-> TRUE]
        ELSE IF key \notin DOMAIN m1.issues
             THEN [m |-> m1, ret |-> NoIssue, err |-> TRUE]
        ELSE LET old == m1.issues[key]
                 new == [old EXCEPT
                           !.Title = IF input.Title # "" THEN input.Title ELSE @,
                           !.Body = IF input.Body # "" THEN input.Body ELSE @,
                           !.Labels = IF Len(input.Labels.elems) > 0 THEN input.Labels ELSE @]
             IN  [m |-> [m1 EXCEPT !.issues[key] = new], ret |-> new, err |-> FALSE]

MockUpdate(m, r, issueNumber, input, overrideErr) ==
    LET m1 == [m EXCEPT !.UpdateCalled = @ + 1]
        key == issueKey(r, issueNumber)
    IN  IF overrideErr THEN [m |-> m1, ret |-> NoIssue, err |-> TRUE]
        ELSE IF key \notin DOMAIN m1.issues
             THEN [m |-> m1, ret |-> NoIssue, err |-> TRUE]
        ELSE LET old == m1.issues[key]
                 new == [old EXCEPT
                           !.Title = IF input.Title # "" THEN input.Title ELSE @,
                           !.Body = IF input.Body # "" THEN input.Body ELSE @,
                           !.Labels = IF ~input.Labels.isNil THEN input.Labels ELSE @]
             IN  [m |-> [m1 EXCEPT !.issues[key] = new], ret |-> new, err |-> FALSE]

\* mutant: Close counts the call and leaves the issue as it is
MockClose_LeavesOpen(m, r, issueNumber, overrideErr) ==
    LET m1 == [m EXCEPT !.CloseCalled = @ + 1]
    IN  IF overrideErr THEN [m |-> m1, err |-> TRUE]
        ELSE IF issueKey(r, issueNumber) \notin DOMAIN m1.issues THEN [m |-> m1, err |-> TRUE]
        ELSE [m |-> m1, err |-> FALSE]

MockClose(m, r, issueNumber, overrideErr) ==
    LET m1 == [m EXCEPT !.CloseCalled = @ + 1]
        key == issueKey(r, issueNumber)
    IN  IF overrideErr THEN [m |-> m1, err |-> TRUE]
        ELSE IF key \notin DOMAIN m1.issues THEN [m |-> m1, err |-> TRUE]
        ELSE [m |-> [m1 EXCEPT !.issues[key].State = "closed"], err |-> FALSE]

\* mutant: Reopen answers without changing the issue
MockReopen_LeavesClosed(m, r, issueNumber) ==
    LET key == issueKey(r, issueNumber)
    IN  IF key \notin DOMAIN m.issues THEN [m |-> m, err |-> TRUE]
        ELSE [m |-> m, err |-> FALSE]

MockReopen(m, r, issueNumber) ==
    LET key == issueKey(r, issueNumber)
    IN  IF key \notin DOMAIN m.issues THEN [m |-> m, err |-> TRUE]
        ELSE [m |-> [m EXCEPT !.issues[key].State = "open"], err |-> FALSE]

\* IssueProvider.Reopen: the call fails without effect (fail), or is served
\* by the provider
ProviderReopen(m, r, issueNumber, fail) ==
    IF fail THEN [m |-> m, err |-> TRUE] ELSE MockReopen(m, r, issueNumber)


---------------------------------------------------------------------------
(* The store *)

ContainsFinalizer(issue, finalizer) == finalizer \in issue.Finalizers
AddFinalizer(issue, finalizer) == [issue EXCEPT !.Finalizers = @ \cup {finalizer}]
RemoveFinalizer(issue, finalizer) == [issue EXCEPT !.Finalizers = @ \ {finalizer}]

\* the store without the object at key
Without(st, key) == [k \in DOMAIN st \ {key} |-> st[k]]

\* r.Update(ctx, &issue): writes metadata and spec, never status (status is a
\* subresource); an object whose deletion marker is set is removed from the
\* store when its last finalizer goes
StoreUpdate(st, key, issue) ==
    LET new == [st[key] EXCEPT !.Finalizers = issue.Finalizers, !.Spec = issue.Spec]
    IN  IF new.DeletionTimestamp /\ new.Finalizers = {}
        THEN Without(st, key)
        ELSE [st EXCEPT ![key] = new]

\* r.Status().Update(ctx, &issue): writes status only
StoreStatusUpdate(st, key, issue) == [st EXCEPT ![key].Status = issue.Status]

---------------------------------------------------------------------------
(* GitHubIssueReconciler.Reconcile *)

\* what one attempt leaves behind and returns
Out(st, m, res, e, tr) ==
    [store |-> st, mock |-> m, result |-> res, err |-> e, trace |-> tr]

\* mutant: a secret that is not found is read as an empty token
ResolveCredential_MissingSecretOk(issue) ==
    LET secret == secrets[issue.Spec.TokenSecretRef]
    IN  IF secret.found /\ "token" \notin secret.Data
        THEN [ok |-> FALSE, result |-> RequeueAfter(RequeueShort), err |-> Nil]
        ELSE [ok |-> TRUE, result |-> EmptyResult, err |-> Nil]

\* 2. Get GitHub token from Secret
ResolveCredential(issue) ==
    LET secret == secrets[issue.Spec.TokenSecretRef]
    IN  IF ~secret.found
        THEN [ok |-> FALSE, result |-> EmptyResult, err |-> "secret not found"]
        ELSE IF "token" \notin secret.Data
        THEN [ok |-> FALSE, result |-> RequeueAfter(RequeueShort), err |-> Nil]
        ELSE [ok |-> TRUE, result |-> EmptyResult, err |-> Nil]

\* mutant: the finalizer is removed whether or not Close succeeded
DeletionBranch_IgnoresCloseError(req, issue, f) ==
    IF ContainsFinalizer(issue, githubIssueFinalizer)
    THEN LET close == IF issue.Status.IssueNumber > 0
                      THEN MockClose(mock, issue.Spec.Repo, issue.Status.IssueNumber,
                                     Fails(f, "Close"))
                      ELSE [m |-> mock, err |-> FALSE]
             tr == IF issue.Status.IssueNumber > 0
                   THEN <<Call("Close", ~close.err)>> ELSE <<>>
         IN  IF Fails(f, "Update")
             THEN Out(store, close.m, EmptyResult, "update failed",
                      tr \o <<Call("store.Update", FALSE)>>)
             ELSE Out(StoreUpdate(store, req, RemoveFinalizer(issue, githubIssueFinalizer)),
                      close.m, EmptyResult, Nil,
                      tr \o <<Call("store.Update", TRUE)>>)
    ELSE Out(store, mock, EmptyResult, Nil, <<>>)

\* mutant: the closed state is written to the status before the finalizer goes
DeletionBranch_RecordsClosed(req, issue, f) ==
    IF ContainsFinalizer(issue, githubIssueFinalizer)
    THEN LET close == IF issue.Status.IssueNumber > 0
                      THEN MockClose(mock, issue.Spec.Repo, issue.Status.IssueNumber,
                                     Fails(f, "Close"))
                      ELSE [m |-> mock, err |-> FALSE]
             tr == IF issue.Status.IssueNumber > 0
                   THEN <<Call("Close", ~close.err)>> ELSE <<>>
             closed == [issue EXCEPT !.Status.State = "closed"]
             st == StoreStatusUpdate(store, req, closed)
         IN  IF close.err
             THEN Out(store, close.m, RequeueAfter(RequeueShort), Nil, tr)
             ELSE IF Fails(f, "Update")
             THEN Out(st, close.m, EmptyResult, "update failed",
                      tr \o <<Call("store.Status.Update", TRUE),
                              Call("store.Update", FALSE)>>)
             ELSE Out(StoreUpdate(st, req, RemoveFinalizer(issue, githubIssueFinalizer)),
                      close.m, EmptyResult, Nil,
                      tr \o <<Call("store.Status.Update", TRUE),
                              Call("store.Update", TRUE)>>)
    ELSE Out(store, mock, EmptyResult, Nil, <<>>)

\* mutant: the remote issue is closed whether or not the finalizer is present
DeletionBranch_ClosesWithoutFinalizer(req, issue, f) ==
    LET close == IF issue.Status.IssueNumber > 0
                 THEN MockClose(mock, issue.Spec.Repo, issue.Status.IssueNumber,
                                Fails(f, "Close"))
                 ELSE [m |-> mock, err |-> FALSE]
        tr == IF issue.Status.IssueNumber > 0
              THEN <<Call("Close", ~close.err)>> ELSE <<>>
    IN  IF close.err
        THEN Out(store, close.m, RequeueAfter(RequeueShort), Nil, tr)
        ELSE IF ~ContainsFinalizer(issue, githubIssueFinalizer)
        THEN Out(store, close.m, EmptyResult, Nil, tr)
        ELSE IF Fails(f, "Update")
        THEN Out(store, close.m, EmptyResult, "update failed",
                 tr \o <<Call("store.Update", FALSE)>>)
        ELSE Out(StoreUpdate(store, req, RemoveFinalizer(issue, githubIssueFinalizer)),
                 close.m, EmptyResult, Nil,
                 tr \o <<Call("store.Update", TRUE)>>)

\* mutant: Close is called whether or not a remote issue is on record
DeletionBranch_ClosesAlways(req, issue, f) ==
    IF ContainsFinalizer(issue, githubIssueFinalizer)
    THEN LET close == MockClose(mock, issue.Spec.Repo, issue.Status.IssueNumber,
                                Fails(f, "Close"))
             tr == <<Call("Close", ~close.err)>>
         IN  IF close.err
             THEN Out(store, close.m, RequeueAfter(RequeueShort), Nil, tr)
             ELSE IF Fails(f, "Update")
             THEN Out(store, close.m, EmptyResult, "update failed",
                      tr \o <<Call("store.Update", FALSE)>>)
             ELSE Out(StoreUpdate(store, req, RemoveFinalizer(issue, githubIssueFinalizer)),
                      close.m, EmptyResult, Nil,
                      tr \o <<Call("store.Update", TRUE)>>)
    ELSE Out(store, mock, EmptyResult, Nil, <<>>)

\* 3. Handle deletion
DeletionBranch(req, issue, f) ==
    IF ContainsFinalizer(issue, githubIssueFinalizer)
    THEN LET close == IF issue.Status.IssueNumber > 0
                      THEN MockClose(mock, issue.Spec.Repo, issue.Status.IssueNumber, Fails(f, "Close"))
                      ELSE [m |-> mock, err |-> FALSE]
             tr == IF issue.Status.IssueNumber > 0
                   THEN <<Call("Close", ~close.err)>> ELSE <<>>
         IN  IF close.err
             THEN Out(store, close.m, RequeueAfter(RequeueShort), Nil, tr)
             ELSE IF Fails(f, "Update")
             THEN Out(store, close.m, EmptyResult, "update failed",
                      tr \o <<Call("store.Update", FALSE)>>)
             ELSE Out(StoreUpdate(store, req, RemoveFinalizer(issue, githubIssueFinalizer)),
                      close.m, EmptyResult, Nil,
                      tr \o <<Call("store.Update", TRUE)>>)
    ELSE Out(store, mock, EmptyResult, Nil, <<>>)

\* mutant: the attempt goes on to create the remote issue after adding the finalizer
FinalizerAddBranch_ThenCreates(req, issue, f) ==
    IF Fails(f, "Update")
    THEN Out(store, mock, EmptyResult, "update failed",
             <<Call("store.Update", FALSE)>>)
    ELSE LET create == MockCreate(mock, [Repo |-> issue.Spec.Repo, Title |-> issue.Spec.Title,
                                         Body |-> issue.Spec.Body, Labels |-> issue.Spec.Labels],
                                  Fails(f, "Create"))
         IN  Out(StoreUpdate(store, req, AddFinalizer(issue, githubIssueFinalizer)),
                 create.m, RequeueNow, Nil,
                 <<Call("store.Update", TRUE), Call("Create", ~create.err)>>)

\* 4. Add finalizer if not present
FinalizerAddBranch(req, issue, f) ==
    IF Fails(f, "Update")
    THEN Out(store, mock, EmptyResult, "update failed",
             <<Call("store.Update", FALSE)>>)
    ELSE Out(StoreUpdate(store, req, AddFinalizer(issue, githubIssueFinalizer)),
             mock, RequeueNow, Nil, <<Call("store.Update", TRUE)>>)

\* mutant: the normal exit asks for no requeue
NormalExit_NoRequeue == EmptyResult

\* Requeue after 5 minutes to periodically detect and correct any drift
NormalExit == RequeueAfter(RequeuePeriodic)

\* 5. Create issue if status.IssueNumber == 0
CreateBranch(req, issue, f) ==
    LET create == MockCreate(mock, [Repo |-> issue.Spec.Repo, Title |-> issue.Spec.Title,
                                    Body |-> issue.Spec.Body, Labels |-> issue.Spec.Labels],
                             Fails(f, "Create"))
        createdIssue == create.ret
        tr == <<Call("Create", ~create.err)>>
        issue1 == [issue EXCEPT !.Status = [IssueNumber |-> createdIssue.Number,
                                            IssueURL |-> createdIssue.URL,
                                            State |-> createdIssue.State]]
    IN  IF create.err
        THEN Out(store, create.m, EmptyResult, "create failed", tr)
        ELSE IF Fails(f, "StatusUpdate")
        THEN Out(store, create.m, EmptyResult, "status update failed",
                 tr \o <<Call("store.Status.Update", FALSE)>>)
        ELSE Out(StoreStatusUpdate(store, req, issue1), create.m,
                 NormalExit, Nil,
                 tr \o <<Call("store.Status.Update", TRUE)>>)

\* mutant: the update pushes the title alone
UpdateInput_TitleOnly(issue) ==
    [Title |-> issue.Spec.Title, Body |-> "", Labels |-> NilSlice]

\* providers.UpdateIssueInput{Title: ..., Body: ..., Labels: ...} of the sync branch
UpdateInput(issue) ==
    [Title |-> issue.Spec.Title, Body |-> issue.Spec.Body, Labels |-> issue.Spec.Labels]

\* mutant: the failure of the remote call is returned to the driver
ShortRequeue_Propagates(m, tr) == Out(store, m, EmptyResult, "remote call failed", tr)

\* sync branch, Reopen or Update failed:
\* return ctrl.Result{RequeueAfter: 30 * time.Second}, nil
ShortRequeue(m, tr) == Out(store, m, RequeueAfter(RequeueShort), Nil, tr)

\* mutant: an attempt whose Reopen failed still pushes the drift
SyncFetched_UpdatesAfterFailedReopen(req, issue, f, m0, fetched) ==
    LET needReopen == fetched.State = "closed"
        reopen == IF needReopen
                  THEN ProviderReopen(m0, issue.Spec.Repo, issue.Status.IssueNumber, Fails(f, "Reopen"))
                  ELSE [m |-> m0, err |-> FALSE]
        tr1 == <<Call("Get", TRUE)>>
                 \o (IF needReopen THEN <<Call("Reopen", ~reopen.err)>> ELSE <<>>)
        \* currentIssue.State = "open"
        currentIssue == IF needReopen THEN [fetched EXCEPT !.State = "open"] ELSE fetched
        drift == \/ currentIssue.Title # issue.Spec.Title
                 \/ currentIssue.Body # issue.Spec.Body
                 \/ ~labelsMatch(currentIssue.Labels, issue.Spec.Labels)
        update == IF drift
                  THEN MockUpdate(reopen.m, issue.Spec.Repo, issue.Status.IssueNumber,
                                  UpdateInput(issue), Fails(f, "ProviderUpdate"))
                  ELSE [m |-> reopen.m, ret |-> NoIssue, err |-> FALSE]
        tr2 == tr1 \o (IF drift
                        THEN <<CallWith("Update", ~update.err, UpdateInput(issue))>>
                        ELSE <<>>)
        statusDiffers == issue.Status.State # currentIssue.State
        issue1 == [issue EXCEPT !.Status.State = currentIssue.State]
    IN  IF reopen.err
        THEN ShortRequeue(update.m, tr2)
        ELSE IF update.err
        THEN ShortRequeue(update.m, tr2)
        ELSE IF statusDiffers /\ Fails(f, "StatusUpdate")
        THEN Out(store, update.m, EmptyResult, "status update failed",
                 tr2 \o <<Call("store.Status.Update", FALSE)>>)
        ELSE IF statusDiffers
        THEN Out(StoreStatusUpdate(store, req, issue1), update.m,
                 NormalExit, Nil,
                 tr2 \o <<Call("store.Status.Update", TRUE)>>)
        ELSE Out(store, update.m, NormalExit, Nil, tr2)

\* mutant: the local view keeps the closed state after the reopen
SyncFetched_KeepsClosedView(req, issue, f, m0, fetched) ==
    LET needReopen == fetched.State = "closed"
        reopen == IF needReopen
                  THEN ProviderReopen(m0, issue.Spec.Repo, issue.Status.IssueNumber, Fails(f, "Reopen"))
                  ELSE [m |-> m0, err |-> FALSE]
        tr1 == <<Call("Get", TRUE)>>
                 \o (IF needReopen THEN <<Call("Reopen", ~reopen.err)>> ELSE <<>>)
        currentIssue == fetched
        drift == \/ currentIssue.Title # issue.Spec.Title
                 \/ currentIssue.Body # issue.Spec.Body
                 \/ ~labelsMatch(currentIssue.Labels, issue.Spec.Labels)
        update == IF drift
                  THEN MockUpdate(reopen.m, issue.Spec.Repo, issue.Status.IssueNumber,
                                  UpdateInput(issue), Fails(f, "ProviderUpdate"))
                  ELSE [m |-> reopen.m, ret |-> NoIssue, err |-> FALSE]
        tr2 == tr1 \o (IF drift
                        THEN <<CallWith("Update", ~update.err, UpdateInput(issue))>>
                        ELSE <<>>)
        statusDiffers == issue.Status.State # currentIssue.State
        issue1 == [issue EXCEPT !.Status.State = currentIssue.State]
    IN  IF reopen.err
        THEN ShortRequeue(reopen.m, tr1)
        ELSE IF update.err
        THEN ShortRequeue(update.m, tr2)
        ELSE IF statusDiffers /\ Fails(f, "StatusUpdate")
        THEN Out(store, update.m, EmptyResult, "status update failed",
                 tr2 \o <<Call("store.Status.Update", FALSE)>>)
        ELSE IF statusDiffers
        THEN Out(StoreStatusUpdate(store, req, issue1), update.m,
                 NormalExit, Nil,
                 tr2 \o <<Call("store.Status.Update", TRUE)>>)
        ELSE Out(store, update.m, NormalExit, Nil, tr2)

\* 6. Sync, after the remote issue was fetched: reopen, push drift, sync status
SyncFetched(req, issue, f, m0, fetched) ==
    LET needReopen == fetched.State = "closed"
        reopen == IF needReopen
                  THEN ProviderReopen(m0, issue.Spec.Repo, issue.Status.IssueNumber, Fails(f, "Reopen"))
                  ELSE [m |-> m0, err |-> FALSE]
        tr1 == <<Call("Get", TRUE)>>
                 \o (IF needReopen THEN <<Call("Reopen", ~reopen.err)>> ELSE <<>>)
        \* currentIssue.State = "open"
        currentIssue == IF needReopen THEN [fetched EXCEPT !.State = "open"] ELSE fetched
        drift == \/ currentIssue.Title # issue.Spec.Title
                 \/ currentIssue.Body # issue.Spec.Body
                 \/ ~labelsMatch(currentIssue.Labels, issue.Spec.Labels)
        update == IF drift
                  THEN MockUpdate(reopen.m, issue.Spec.Repo, issue.Status.IssueNumber,
                                  UpdateInput(issue), Fails(f, "ProviderUpdate"))
                  ELSE [m |-> reopen.m, ret |-> NoIssue, err |-> FALSE]
        tr2 == tr1 \o (IF drift
                        THEN <<CallWith("Update", ~update.err, UpdateInput(issue))>>
                        ELSE <<>>)
        statusDiffers == issue.Status.State # currentIssue.State
        issue1 == [issue EXCEPT !.Status.State = currentIssue.State]
    IN  IF reopen.err
        THEN ShortRequeue(reopen.m, tr1)
        ELSE IF update.err
        THEN ShortRequeue(update.m, tr2)
        ELSE IF statusDiffers /\ Fails(f, "StatusUpdate")
        THEN Out(store, update.m, EmptyResult, "status update failed",
                 tr2 \o <<Call("store.Status.Update", FALSE)>>)
        ELSE IF statusDiffers
        THEN Out(StoreStatusUpdate(store, req, issue1), update.m,
                 NormalExit, Nil,
                 tr2 \o <<Call("store.Status.Update", TRUE)>>)
        ELSE Out(store, update.m, NormalExit, Nil, tr2)

\* mutant: a failed Get is answered with the short requeue and no error
SyncBranch_GetFailureRequeues(req, issue, f) ==
    LET get == MockGet(mock, issue.Spec.Repo, issue.Status.IssueNumber, Fails(f, "Get"))
    IN  IF get.err
        THEN Out(store, get.m, RequeueAfter(RequeueShort), Nil, <<Call("Get", FALSE)>>)
        ELSE SyncFetched(req, issue, f, get.m, get.ret)

\* 6. Sync: K8s spec is the source of truth
SyncBranch(req, issue, f) ==
    LET get == MockGet(mock, issue.Spec.Repo, issue.Status.IssueNumber, Fails(f, "Get"))
    IN  IF get.err
        THEN Out(store, get.m, EmptyResult, "get failed", <<Call("Get", FALSE)>>)
        ELSE SyncFetched(req, issue, f, get.m, get.ret)

\* mutant: not-found is propagated like any other fetch error
NotFoundOutcome_Error == Out(store, mock, EmptyResult, "not found", <<>>)

\* 1. Fetch: the object is not found
NotFoundOutcome == Out(store, mock, EmptyResult, Nil, <<>>)

\* mutant: the create branch is taken whatever the status says
NeedsCreate_Always(issue) == TRUE

\* 5. Create issue if status.IssueNumber == 0
NeedsCreate(issue) == issue.Status.IssueNumber = 0

\* mutant: the deletion marker is looked at before the credential is resolved
ReconcileOutcome_DeletionFirst(req, f) ==
    IF req \notin DOMAIN store
    THEN NotFoundOutcome
    ELSE LET issue == store[req]
             cred == ResolveCredential(issue)
         IN  IF issue.DeletionTimestamp
             THEN DeletionBranch(req, issue, f)
             ELSE IF ~cred.ok
             THEN Out(store, mock, cred.result, cred.err, <<>>)
             ELSE IF ~ContainsFinalizer(issue, githubIssueFinalizer)
             THEN FinalizerAddBranch(req, issue, f)
             ELSE IF NeedsCreate(issue)
             THEN CreateBranch(req, issue, f)
             ELSE SyncBranch(req, issue, f)

\* the whole of Reconcile, as the outcome of one attempt on key req under fault f
ReconcileOutcome(req, f) ==
    IF req \notin DOMAIN store
    THEN NotFoundOutcome
    ELSE LET issue == store[req]
             cred == ResolveCredential(issue)
         IN  IF ~cred.ok
             THEN Out(store, mock, cred.result, cred.err, <<>>)
             ELSE IF issue.DeletionTimestamp
             THEN DeletionBranch(req, issue, f)
             ELSE IF ~ContainsFinalizer(issue, githubIssueFinalizer)
             THEN FinalizerAddBranch(req, issue, f)
             ELSE IF NeedsCreate(issue)
             THEN CreateBranch(req, issue, f)
             ELSE SyncBranch(req, issue, f)

Reconcile(req) ==
    /\ attempts < MaxAttempts
    /\ \E f \in Faults :
         LET out == ReconcileOutcome(req, f)
         IN  /\ store' = out.store
             /\ mock' = out.mock
             /\ result' = out.result
             /\ err' = out.err
             /\ trace' = out.trace
    /\ attempts' = attempts + 1
    /\ UNCHANGED secrets
    /\ UNCHANGED <<labelerVars, providerVars, pureVars, websiteVars>>

---------------------------------------------------------------------------
(* The environment: the user of the cluster and of the remote system *)

\* the object k8sClient.Create(ctx, issue) puts into the store
NewGitHubIssue(spec, finalizers) ==
    [Generation |-> 1, DeletionTimestamp |-> FALSE, Finalizers |-> finalizers,
     Spec |-> spec, Status |-> ZeroStatus]

\* issue.Spec.Title = ...; k8sClient.Update(ctx, &issue): one edit changes one
\* field of the spec (the repository of an issue is never changed)
UpdateSpec(key, spec) ==
    /\ key \in DOMAIN store
    /\ ~store[key].DeletionTimestamp
    /\ store[key].Generation < MaxGeneration
    /\ spec.Repo = store[key].Spec.Repo
    /\ Cardinality({fld \in {"Title", "Body", "Labels", "TokenSecretRef"} :
                      spec[fld] # store[key].Spec[fld]}) = 1
    /\ store' = [store EXCEPT ![key].Spec = spec, ![key].Generation = @ + 1]
    /\ UNCHANGED <<secrets, mock, result, err, trace, attempts>>
    /\ UNCHANGED <<labelerVars, providerVars, pureVars, websiteVars>>

\* k8sClient.Delete(ctx, &issue)
DeleteGitHubIssue(key) ==
    /\ key \in DOMAIN store
    /\ ~store[key].DeletionTimestamp
    /\ store' = IF store[key].Finalizers = {}
                THEN Without(store, key)
                ELSE [store EXCEPT ![key].DeletionTimestamp = TRUE]
    /\ UNCHANGED <<secrets, mock, result, err, trace, attempts>>
    /\ UNCHANGED <<labelerVars, providerVars, pureVars, websiteVars>>

\* the owner of the other finalizer finishes its cleanup
RemoveOtherFinalizer(key) ==
    /\ key \in DOMAIN store
    /\ store[key].DeletionTimestamp
    /\ otherFinalizer \in store[key].Finalizers
    /\ store' = StoreUpdate(store, key, RemoveFinalizer(store[key], otherFinalizer))
    /\ UNCHANGED <<secrets, mock, result, err, trace, attempts>>
    /\ UNCHANGED <<labelerVars, providerVars, pureVars, websiteVars>>

\* mutant: the inspection is counted as a Get
CloseOutOfBand_CountsGet(key) ==
    /\ key \in DOMAIN store
    /\ store[key].Status.IssueNumber > 0
    /\ LET k == issueKey(store[key].Spec.Repo, store[key].Status.IssueNumber)
       IN  /\ k \in DOMAIN mock.issues
           /\ mock.issues[k].State = "open"
           /\ mock' = [mock EXCEPT !.issues[k].State = "closed", !.GetCalled = @ + 1]
    /\ UNCHANGED <<store, secrets, result, err, trace, attempts>>
    /\ UNCHANGED <<labelerVars, providerVars, pureVars, websiteVars>>

\* remoteIssue := mockProvider.GetIssue(repo, 1); remoteIssue.State = "closed":
\* somebody closes the remote issue of the object
CloseOutOfBand(key) ==
    /\ key \in DOMAIN store
    /\ store[key].Status.IssueNumber > 0
    /\ LET k == issueKey(store[key].Spec.Repo, store[key].Status.IssueNumber)
       IN  /\ k \in DOMAIN mock.issues
           /\ mock.issues[k].State = "open"
           /\ mock' = [mock EXCEPT !.issues[k].State = "closed"]
    /\ UNCHANGED <<store, secrets, result, err, trace, attempts>>
    /\ UNCHANGED <<labelerVars, providerVars, pureVars, websiteVars>>

---------------------------------------------------------------------------
(* The namespace labeler: values *)

\* cache.MetaNamespaceKeyFunc of a Namespace is its name
systemNamespaces == {"kube-system", "kube-public", "kube-node-lease", "default"}
NsKeys == {"kube-system", "test-ns"}

Workers == 1..NumWorkers

\* map[string]string: a function from the keys that are set
NoLabels == [k \in {} |-> ""]
Label(k, v) == [x \in {k} |-> v]
UserLabels == {NoLabels, Label("env", "production"), Label("team", "backend")}

\* a map with key k set to v and every other key as it was
WithLabel(labels, k, v) ==
    [x \in DOMAIN labels \cup {k} |-> IF x = k THEN v ELSE labels[x]]

\* the Namespaces by name, with the Namespace under name n set or removed
PutNamespace(nss, n, labels) ==
    [x \in DOMAIN nss \cup {n} |-> IF x = n THEN labels ELSE nss[x]]
RemoveNamespace(nss, n) == [x \in DOMAIN nss \ {n} |-> nss[x]]

---------------------------------------------------------------------------
(* The rate-limiting work queue *)

\* workqueue.NewRateLimitingQueue(workqueue.DefaultControllerRateLimiter()):
\*   queue      the pending keys, in the order of their delivery
\*   dirty      the keys that need processing
\*   processing the keys that are in flight (between Get and Done)
\*   waiting    the keys whose backoff delay has not elapsed
\*   failures   per key, the requeues counted by the rate limiter
\*   shuttingDown  whether ShutDown was called
NewRateLimitingQueue ==
    [queue |-> <<>>, dirty |-> {}, processing |-> {}, waiting |-> {},
     failures |-> [k \in NsKeys |-> 0], shuttingDown |-> FALSE]

\* mutant: Add appends the key whether or not it is already pending
QueueAdd_NoDedup(q, item) ==
    LET q1 == [q EXCEPT !.dirty = @ \cup {item}]
    IN  IF item \in q.processing THEN q1
        ELSE [q1 EXCEPT !.queue = Append(@, item)]

\* queue.Add(key)
QueueAdd(q, item) ==
    IF item \in q.dirty THEN q
    ELSE LET q1 == [q EXCEPT !.dirty = @ \cup {item}]
         IN  IF item \in q.processing THEN q1
             ELSE [q1 EXCEPT !.queue = Append(@, item)]

\* queue.Get(), when a key is pending
QueueGet(q) ==
    LET item == Head(q.queue)
    IN  [q |-> [q EXCEPT !.queue = Tail(@),
                         !.processing = @ \cup {item},
                         !.dirty = @ \ {item}],
         item |-> item]

\* mutant: Done releases the key and forgets that it was added meanwhile
QueueDone_DropsDirty(q, item) ==
    [q EXCEPT !.processing = @ \ {item}, !.dirty = @ \ {item}]

\* queue.Done(key)
QueueDone(q, item) ==
    LET q1 == [q EXCEPT !.processing = @ \ {item}]
    IN  IF item \in q.dirty THEN [q1 EXCEPT !.queue = Append(@, item)] ELSE q1

\* queue.AddRateLimited(key): the rate limiter counts the requeue and the key
\* is added once its delay has elapsed
QueueAddRateLimited(q, item) ==
    [q EXCEPT !.failures[item] = @ + 1, !.waiting = @ \cup {item}]

\* queue.Forget(key)
QueueForget(q, item) == [q EXCEPT !.failures[item] = 0]

\* queue.ShutDown()
QueueShutDown(q) == [q EXCEPT !.shuttingDown = TRUE]

\* whether queue.Get() reports shutdown: the queue was shut down and is drained
QueueGetShutdown(q) == q.shuttingDown /\ q.queue = <<>>

---------------------------------------------------------------------------
(* reconcile *)

NoError == "nil"
ReconcileFaults == {"none", "patch", "panic"}

\* clientset.CoreV1().Namespaces().Patch(..., types.MergePatchType,
\* {"metadata":{"labels":{"team":"unassigned"}}}, ...)
\* mutant: the patch replaces the labels of the Namespace by the one it carries
Patch_ReplacesLabels(nss, name, fault) ==
    IF fault = "patch" THEN [clientset |-> nss, err |-> "patch failed"]
    ELSE IF name \notin DOMAIN nss THEN [clientset |-> nss, err |-> "not found"]
    ELSE [clientset |-> PutNamespace(nss, name, Label("team", "unassigned")),
          err |-> NoError]

Patch(nss, name, fault) ==
    IF fault = "patch" THEN [clientset |-> nss, err |-> "patch failed"]
    ELSE IF name \notin DOMAIN nss THEN [clientset |-> nss, err |-> "not found"]
    ELSE [clientset |-> PutNamespace(nss, name, WithLabel(nss[name], "team", "unassigned")),
          err |-> NoError]

\* mutant: the team label is not looked at
HasTeamLabel_Never(labels) == FALSE

\* _, exists := ns.Labels["team"]
HasTeamLabel(labels) == "team" \in DOMAIN labels

\* mutant: the system namespaces are labelled like any other
reconcile_LabelsSystem(key, fault) ==
    IF key \notin DOMAIN lister
    THEN [clientset |-> clientset, err |-> "not found", patched |-> FALSE]
    ELSE IF HasTeamLabel(lister[key])
    THEN [clientset |-> clientset, err |-> NoError, patched |-> FALSE]
    ELSE LET p == Patch(clientset, key, fault)
         IN  [clientset |-> p.clientset, err |-> p.err, patched |-> TRUE]

\* mutant: a key whose Namespace is not in the cache is done with
reconcile_MissingIsDone(key, fault) ==
    IF key \notin DOMAIN lister
    THEN [clientset |-> clientset, err |-> NoError, patched |-> FALSE]
    ELSE IF key \in systemNamespaces
    THEN [clientset |-> clientset, err |-> NoError, patched |-> FALSE]
    ELSE IF HasTeamLabel(lister[key])
    THEN [clientset |-> clientset, err |-> NoError, patched |-> FALSE]
    ELSE LET p == Patch(clientset, key, fault)
         IN  [clientset |-> p.clientset, err |-> p.err, patched |-> TRUE]

\* reconcile(clientset, lister, key): what it returns and leaves in the API server
reconcile(key, fault) ==
    IF key \notin DOMAIN lister
    THEN [clientset |-> clientset, err |-> "not found", patched |-> FALSE]
    ELSE IF key \in systemNamespaces
    THEN [clientset |-> clientset, err |-> NoError, patched |-> FALSE]
    ELSE IF HasTeamLabel(lister[key])
    THEN [clientset |-> clientset, err |-> NoError, patched |-> FALSE]
    ELSE LET p == Patch(clientset, key, fault)
         IN  [clientset |-> p.clientset, err |-> p.err, patched |-> TRUE]

---------------------------------------------------------------------------
(* The worker loop *)

\* A worker at the top of the loop: pc is its place in the loop, key and err
\* are the variables of the loop body and calls lists what it has called for
\* the key it holds.
IdleWorker == [pc |-> "Get", key |-> "", err |-> NoError, calls |-> <<>>]

\* a reconcile that panicked ends the process: the panic is not recovered
Crashed == \E w \in Workers : workers[w].pc = "panic"

\* mutant: the worker releases the key as soon as it has it, before processing it
WorkerGet_ReleasesKey(w) ==
    /\ ~Crashed
    /\ workers[w].pc = "Get"
    /\ queue.queue # <<>>
    /\ LET got == QueueGet(queue)
       IN  /\ queue' = QueueDone(got.q, got.item)
           /\ workers' = [workers EXCEPT ![w] =
                            [pc |-> "reconcile", key |-> got.item, err |-> NoError,
                             calls |-> <<>>]]
    /\ UNCHANGED <<clientset, lister, userOps>>
    /\ UNCHANGED <<issueVars, providerVars, pureVars, websiteVars>>

\* mutant: Get reports shutdown as soon as the queue is shut down, pending
\* keys or not
WorkerGet_ExitsUndrained(w) ==
    /\ ~Crashed
    /\ workers[w].pc = "Get"
    /\ IF queue.shuttingDown
       THEN /\ workers' = [workers EXCEPT ![w].pc = "exited"]
            /\ UNCHANGED queue
       ELSE /\ queue.queue # <<>>
            /\ LET got == QueueGet(queue)
               IN  /\ queue' = got.q
                   /\ workers' = [workers EXCEPT ![w] =
                                    [pc |-> "reconcile", key |-> got.item,
                                     err |-> NoError, calls |-> <<>>]]
    /\ UNCHANGED <<clientset, lister, userOps>>
    /\ UNCHANGED <<issueVars, providerVars, pureVars, websiteVars>>

\* key, shutdown := queue.Get(); if shutdown { return }
\* Get blocks while no key is pending and the queue is not shut down.
WorkerGet(w) ==
    /\ ~Crashed
    /\ workers[w].pc = "Get"
    /\ IF QueueGetShutdown(queue)
       THEN /\ workers' = [workers EXCEPT ![w].pc = "exited"]
            /\ UNCHANGED queue
       ELSE /\ queue.queue # <<>>
            /\ LET got == QueueGet(queue)
               IN  /\ queue' = got.q
                   /\ workers' = [workers EXCEPT ![w] =
                                    [pc |-> "reconcile", key |-> got.item,
                                     err |-> NoError, calls |-> <<>>]]
    /\ UNCHANGED <<clientset, lister, userOps>>
    /\ UNCHANGED <<issueVars, providerVars, pureVars, websiteVars>>

\* err := reconcile(clientset, nsInformer.Lister(), key.(string))
WorkerReconcile(w) ==
    /\ ~Crashed
    /\ workers[w].pc = "reconcile"
    /\ \E fault \in ReconcileFaults :
         IF fault = "panic"
         THEN /\ workers' = [workers EXCEPT ![w].pc = "panic",
                                            ![w].calls = Append(@, "reconcile")]
              /\ UNCHANGED clientset
         ELSE LET out == reconcile(workers[w].key, fault)
              IN  /\ clientset' = out.clientset
                  /\ workers' = [workers EXCEPT ![w].pc = "requeue",
                                                ![w].err = out.err,
                                                ![w].calls = Append(@, "reconcile")]
    /\ UNCHANGED <<queue, lister, userOps>>
    /\ UNCHANGED <<issueVars, providerVars, pureVars, websiteVars>>

\* mutant: the key is forgotten whatever reconcile returned
WorkerRequeue_AlwaysForget(w) ==
    /\ ~Crashed
    /\ workers[w].pc = "requeue"
    /\ queue' = QueueForget(queue, workers[w].key)
    /\ workers' = [workers EXCEPT ![w].pc = "Done", ![w].calls = Append(@, "Forget")]
    /\ UNCHANGED <<clientset, lister, userOps>>
    /\ UNCHANGED <<issueVars, providerVars, pureVars, websiteVars>>

\* if err != nil { queue.AddRateLimited(key) } else { queue.Forget(key) }
WorkerRequeue(w) ==
    /\ ~Crashed
    /\ workers[w].pc = "requeue"
    /\ IF workers[w].err # NoError
       THEN /\ queue.failures[workers[w].key] < MaxFailures
            /\ queue' = QueueAddRateLimited(queue, workers[w].key)
            /\ workers' = [workers EXCEPT ![w].pc = "Done",
                                          ![w].calls = Append(@, "AddRateLimited")]
       ELSE /\ queue' = QueueForget(queue, workers[w].key)
            /\ workers' = [workers EXCEPT ![w].pc = "Done",
                                          ![w].calls = Append(@, "Forget")]
    /\ UNCHANGED <<clientset, lister, userOps>>
    /\ UNCHANGED <<issueVars, providerVars, pureVars, websiteVars>>

\* mutant: the worker goes back to the top of the loop without calling Done
WorkerDone_SkipsDone(w) ==
    /\ ~Crashed
    /\ workers[w].pc = "Done"
    /\ workers' = [workers EXCEPT ![w] = IdleWorker]
    /\ UNCHANGED <<queue, clientset, lister, userOps>>
    /\ UNCHANGED <<issueVars, providerVars, pureVars, websiteVars>>

\* queue.Done(key), and back to the top of the loop
WorkerDone(w) ==
    /\ ~Crashed
    /\ workers[w].pc = "Done"
    /\ queue' = QueueDone(queue, workers[w].key)
    /\ workers' = [workers EXCEPT ![w] = IdleWorker]
    /\ UNCHANGED <<clientset, lister, userOps>>
    /\ UNCHANGED <<issueVars, providerVars, pureVars, websiteVars>>

---------------------------------------------------------------------------
(* The informer, the delaying queue and the users of the cluster *)

\* The informer brings its cache up to date with the Namespace n of the API
\* server and calls the handler of the event: AddFunc and UpdateFunc add the
\* key to the queue; no handler is registered for a deletion.
InformerEvent(n) ==
    /\ ~Crashed
    /\ \/ n \in DOMAIN clientset /\ n \notin DOMAIN lister
       \/ n \in DOMAIN clientset /\ n \in DOMAIN lister /\ lister[n] # clientset[n]
       \/ n \notin DOMAIN clientset /\ n \in DOMAIN lister
    /\ IF n \in DOMAIN clientset
       THEN /\ lister' = PutNamespace(lister, n, clientset[n])
            /\ queue' = QueueAdd(queue, n)
       ELSE /\ lister' = RemoveNamespace(lister, n)
            /\ queue' = queue
    /\ UNCHANGED <<clientset, workers, userOps>>
    /\ UNCHANGED <<issueVars, providerVars, pureVars, websiteVars>>

\* the resync of the informer (every 30 seconds): UpdateFunc for a cached Namespace
Resync(n) ==
    /\ ~Crashed
    /\ n \in DOMAIN lister
    /\ queue' = QueueAdd(queue, n)
    /\ UNCHANGED <<clientset, lister, workers, userOps>>
    /\ UNCHANGED <<issueVars, providerVars, pureVars, websiteVars>>

\* the backoff delay of a key added with AddRateLimited has elapsed
DelayElapsed(item) ==
    /\ ~Crashed
    /\ item \in queue.waiting
    /\ queue' = QueueAdd([queue EXCEPT !.waiting = @ \ {item}], item)
    /\ UNCHANGED <<clientset, lister, workers, userOps>>
    /\ UNCHANGED <<issueVars, providerVars, pureVars, websiteVars>>

\* queue.ShutDown(): the queue is told to shut down
ShutDown ==
    /\ ~Crashed
    /\ ~queue.shuttingDown
    /\ queue' = QueueShutDown(queue)
    /\ UNCHANGED <<clientset, lister, workers, userOps>>
    /\ UNCHANGED <<issueVars, providerVars, pureVars, websiteVars>>

\* kubectl create namespace
CreateNamespace(n, labels) ==
    /\ userOps < MaxUserOps
    /\ n \notin DOMAIN clientset
    /\ clientset' = PutNamespace(clientset, n, labels)
    /\ userOps' = userOps + 1
    /\ UNCHANGED <<queue, lister, workers>>
    /\ UNCHANGED <<issueVars, providerVars, pureVars, websiteVars>>

\* kubectl delete namespace
DeleteNamespace(n) ==
    /\ userOps < MaxUserOps
    /\ n \in DOMAIN clientset
    /\ clientset' = RemoveNamespace(clientset, n)
    /\ userOps' = userOps + 1
    /\ UNCHANGED <<queue, lister, workers>>
    /\ UNCHANGED <<issueVars, providerVars, pureVars, websiteVars>>

\* kubectl label namespace n team=backend
LabelNamespace(n) ==
    /\ userOps < MaxUserOps
    /\ n \in DOMAIN clientset
    /\ clientset[n] # WithLabel(clientset[n], "team", "backend")
    /\ clientset' = PutNamespace(clientset, n, WithLabel(clientset[n], "team", "backend"))
    /\ userOps' = userOps + 1
    /\ UNCHANGED <<queue, lister, workers>>
    /\ UNCHANGED <<issueVars, providerVars, pureVars, websiteVars>>

---------------------------------------------------------------------------
(* The MockProvider called from several goroutines *)

(* Each method of the MockProvider takes m.mu (Lock or RLock), runs its    *)
(* body and releases the lock on return (defer).  A body run under Lock is *)
(* one step.  Get runs under RLock, which other readers may hold at the    *)
(* same time, and its body writes: m.GetCalled++ is a load and a store,    *)
(* and what another reader does between the two is not excluded by the     *)
(* lock.  The bodies that only read (GetIssue, the /stats handler) are one *)
(* step each.                                                              *)

Callers == 1..NumCallers

\* the five operations of the IssueProvider interface
Operations == {"Create", "Get", "Update", "Close", "Reopen"}
\* the methods that take m.mu.RLock()
ReadLocked == {"Get", "GetIssue", "Stats"}
\* the methods with a ...Func field
Overridable == {"Create", "Get", "Update", "Close"}

\* sync.RWMutex: the goroutine holding the write lock (0: none) and the
\* goroutines holding the read lock
NewRWMutex == [writer |-> 0, readers |-> {}]
CanLock(m) == m.writer = 0 /\ m.readers = {}
CanRLock(m) == m.writer = 0
Lock(m, t) == [m EXCEPT !.writer = t]
RLock(m, t) == [m EXCEPT !.readers = @ \cup {t}]
Unlock(m, t) == [m EXCEPT !.writer = 0]
RUnlock(m, t) == [m EXCEPT !.readers = @ \ {t}]

IssueNumbers == 1..2
CreateIssueInputs ==
    [Repo : Repos, Title : {"Test Issue"}, Body : {"This is a test issue"},
     Labels : {Slice(<<"bug">>)}]
NoCreateInput == [Repo |-> "", Title |-> "", Body |-> "", Labels |-> NilSlice]
UpdateIssueInputs ==
    [Title : {"", "Updated Title"}, Body : {"", "Updated body"},
     Labels : {NilSlice, Slice(<<>>), Slice(<<"ui">>)}]
NoUpdateInput == [Title |-> "", Body |-> "", Labels |-> NilSlice]

\* One call: the method, its arguments, and whether its ...Func override is
\* installed (an override that returns an error).  A method whose override
\* is installed does not look at its arguments.
ProviderCall(op, n, create, update, override) ==
    [op |-> op, repo |-> repo, number |-> n, create |-> create, update |-> update,
     override |-> override]
NoCall == ProviderCall("", 0, NoCreateInput, NoUpdateInput, FALSE)
ProviderCalls ==
    {ProviderCall("Create", 0, in, NoUpdateInput, FALSE) : in \in CreateIssueInputs}
    \cup {ProviderCall(op, n, NoCreateInput, NoUpdateInput, FALSE) :
            op \in {"Get", "Close", "Reopen", "GetIssue"}, n \in IssueNumbers}
    \cup {ProviderCall("Update", n, NoCreateInput, in, FALSE) :
            n \in IssueNumbers, in \in UpdateIssueInputs}
    \cup {ProviderCall("Stats", 0, NoCreateInput, NoUpdateInput, FALSE)}
    \cup {ProviderCall(op, 1, NoCreateInput, NoUpdateInput, TRUE) : op \in Overridable}

\* GitHubProvider.Update: the github.IssueRequest sent to Issues.Edit.  A
\* field of the request is a pointer: <<>> when nil (left out of the request),
\* <<v>> when set.
IssueRequest(input) ==
    [Title |-> IF input.Title # "" THEN <<input.Title>> ELSE <<>>,
     Body |-> IF input.Body # "" THEN <<input.Body>> ELSE <<>>,
     Labels |-> IF ~input.Labels.isNil THEN <<input.Labels.elems>> ELSE <<>>,
     State |-> <<>>]

\* GetIssue returns a stored issue for inspection in tests (nil when absent)
GetIssue(m, r, number) ==
    IF issueKey(r, number) \in DOMAIN m.issues THEN m.issues[issueKey(r, number)]
    ELSE NoIssue

\* the stats map of the /stats handler
Stats(m) ==
    [createCalled |-> m.CreateCalled,
     getCalled |-> m.GetCalled,
     updateCalled |-> m.UpdateCalled,
     closeCalled |-> m.CloseCalled,
     totalIssues |-> Cardinality(DOMAIN m.issues)]
NoStats == [k \in {} |-> 0]

\* what a call hands back
Returned(ret, e, stats) == [ret |-> ret, err |-> e, stats |-> stats]
NoReturn == Returned(NoIssue, FALSE, NoStats)

\* The body of a call.  loaded is the value of m.GetCalled that Get's
\* increment has read.
Body(m, c, loaded) ==
    IF c.op = "Create"
    THEN LET r == MockCreate(m, c.create, c.override)
         IN  [m |-> r.m, out |-> Returned(r.ret, r.err, NoStats)]
    ELSE IF c.op = "Get"
    THEN LET r == MockGet([m EXCEPT !.GetCalled = loaded], c.repo, c.number, c.override)
         IN  [m |-> r.m, out |-> Returned(r.ret, r.err, NoStats)]
    ELSE IF c.op = "Update"
    THEN LET r == MockUpdate(m, c.repo, c.number, c.update, c.override)
         IN  [m |-> r.m, out |-> Returned(r.ret, r.err, NoStats)]
    ELSE IF c.op = "Close"
    THEN LET r == MockClose(m, c.repo, c.number, c.override)
         IN  [m |-> r.m, out |-> Returned(NoIssue, r.err, NoStats)]
    ELSE IF c.op = "Reopen"
    THEN LET r == MockReopen(m, c.repo, c.number)
         IN  [m |-> r.m, out |-> Returned(NoIssue, r.err, NoStats)]
    ELSE IF c.op = "GetIssue"
    THEN [m |-> m, out |-> Returned(GetIssue(m, c.repo, c.number), FALSE, NoStats)]
    ELSE [m |-> m, out |-> Returned(NoIssue, FALSE, Stats(m))]

IdleCaller == [pc |-> "idle", call |-> NoCall, loaded |-> 0, out |-> NoReturn]
NoCallsMade == [op \in Operations \cup {"GetIssue", "Stats"} |-> 0]

\* calls begun so far
CallsBegun ==
    callsMade["Create"] + callsMade["Get"] + callsMade["Update"] + callsMade["Close"]
      + callsMade["Reopen"] + callsMade["GetIssue"] + callsMade["Stats"]
      + Cardinality({t \in Callers : callers[t].pc \in {"locked", "loaded"}})

\* m.mu.Lock() or m.mu.RLock() at the head of a method
ProviderLock(t, c) ==
    /\ callers[t].pc = "idle"
    /\ CallsBegun < MaxCalls
    /\ IF c.op \in ReadLocked
       THEN CanRLock(mu) /\ mu' = RLock(mu, t)
       ELSE CanLock(mu) /\ mu' = Lock(mu, t)
    /\ callers' = [callers EXCEPT ![t] = [IdleCaller EXCEPT !.pc = "locked", !.call = c]]
    /\ UNCHANGED <<mock, callsMade>>
    /\ UNCHANGED <<store, secrets, result, err, trace, attempts>>
    /\ UNCHANGED <<labelerVars, pureVars, websiteVars>>

\* m.GetCalled++ in Get, first half: the counter is read
GetLoad(t) ==
    /\ callers[t].pc = "locked"
    /\ callers[t].call.op = "Get"
    /\ callers' = [callers EXCEPT ![t].pc = "loaded", ![t].loaded = mock.GetCalled]
    /\ UNCHANGED <<mock, mu, callsMade>>
    /\ UNCHANGED <<store, secrets, result, err, trace, attempts>>
    /\ UNCHANGED <<labelerVars, pureVars, websiteVars>>

\* the rest of the method, up to its return statement
ProviderServe(t) ==
    /\ \/ callers[t].pc = "locked" /\ callers[t].call.op # "Get"
       \/ callers[t].pc = "loaded"
    /\ LET r == Body(mock, callers[t].call, callers[t].loaded)
       IN  /\ mock' = r.m
           /\ callers' = [callers EXCEPT ![t].pc = "served", ![t].out = r.out]
    /\ callsMade' = [callsMade EXCEPT ![callers[t].call.op] = @ + 1]
    /\ UNCHANGED mu
    /\ UNCHANGED <<store, secrets, result, err, trace, attempts>>
    /\ UNCHANGED <<labelerVars, pureVars, websiteVars>>

\* defer m.mu.Unlock() or defer m.mu.RUnlock()
ProviderUnlock(t) ==
    /\ callers[t].pc = "served"
    /\ mu' = IF callers[t].call.op \in ReadLocked THEN RUnlock(mu, t) ELSE Unlock(mu, t)
    /\ callers' = [callers EXCEPT ![t] = IdleCaller]
    /\ UNCHANGED <<mock, callsMade>>
    /\ UNCHANGED <<store, secrets, result, err, trace, attempts>>
    /\ UNCHANGED <<labelerVars, pureVars, websiteVars>>

\* no goroutine is calling the MockProvider directly
ProviderIdle ==
    /\ mu = NewRWMutex
    /\ callers = [t \in Callers |-> IdleCaller]
    /\ callsMade = NoCallsMade

---------------------------------------------------------------------------
(* labelsMatch applied on its own *)

\* the label lists of up to MaxLen labels, repeated labels included
LabelLists == UNION {[1..n -> LabelNames] : n \in 0..MaxLen}
LabelArgs == {NilSlice} \cup {Slice(l) : l \in LabelLists}

\* callRet is <<>> until the function has returned and <<its result>> after
\* no function is applied on its own
PureIdle ==
    /\ callArgs = <<>>
    /\ callRet = <<>>

\* labelsMatch(a, b) is called with the arguments chosen at the start
CallLabelsMatch ==
    /\ callRet = <<>>
    /\ callRet' = <<labelsMatch(callArgs[1], callArgs[2])>>
    /\ UNCHANGED callArgs
    /\ UNCHANGED <<issueVars, labelerVars, providerVars, websiteVars>>

---------------------------------------------------------------------------
(* The Website reconciler *)

websiteKey == "default/site"

ReplicaCounts == 0..MaxReplicas
GitURLs == {"https://git.example/a", "https://git.example/b"}
WebsiteSpecs == [Replicas : ReplicaCounts, GitURL : GitURLs]

\* a Website the user has just created: no status yet
NewWebsite(spec) == [Spec |-> spec, Status |-> [AvailableReplicas |-> 0, Phase |-> ""]]

\* dep := &appsv1.Deployment{...}: the Deployment the reconciler wants for
\* the Website, as far as it depends on the Website (its replica count, the
\* repository its init container syncs, its controller reference); a new
\* Deployment has no available replica
DesiredDeployment(name, website) ==
    [Replicas |-> website.Spec.Replicas, GitURL |-> website.Spec.GitURL,
     Owner |-> name, AvailableReplicas |-> 0]

\* svc := &corev1.Service{...}
DesiredService(name) ==
    [Selector |-> name, Port |-> 80, Type |-> "ClusterIP", Owner |-> name]

\* the objects by name, with the one under key set to obj
WithObject(st, key, obj) ==
    [k \in DOMAIN st \cup {key} |-> IF k = key THEN obj ELSE st[k]]

\* The calls of one Reconcile that can fail, by the step that makes them.  A
\* failure ends the attempt, so an attempt meets at most one.
SiteFaults ==
    {<<NoFault, NoFault>>,
     <<"Deployment", "Get">>, <<"Deployment", "Create">>, <<"Deployment", "Update">>,
     <<"Service", "Get">>, <<"Service", "Create">>,
     <<"Status", "Get">>, <<"Status", "Update">>}
SiteFails(f, step, op) == f = <<step, op>>

\* a call to the store recorded with the step that made it; a Get that
\* answers NotFound has not failed
SiteCall(step, op, ok) == [step |-> step, op |-> op, ok |-> ok]

StepOut(objs, e, tr) == [objs |-> objs, err |-> e, trace |-> tr]

\* mutant: an existing Deployment is replaced by the desired one
reconcileDeployment_Replaces(deps, name, website, f) ==
    LET dep == DesiredDeployment(name, website)
        get == SiteCall("Deployment", "Get", ~SiteFails(f, "Deployment", "Get"))
    IN  IF SiteFails(f, "Deployment", "Get")
        THEN StepOut(deps, "get failed", <<get>>)
        ELSE IF name \notin DOMAIN deps
        THEN IF SiteFails(f, "Deployment", "Create")
             THEN StepOut(deps, "create failed",
                          <<get, SiteCall("Deployment", "Create", FALSE)>>)
             ELSE StepOut(WithObject(deps, name, dep), Nil,
                          <<get, SiteCall("Deployment", "Create", TRUE)>>)
        ELSE IF SiteFails(f, "Deployment", "Update")
        THEN StepOut(deps, "update failed",
                     <<get, SiteCall("Deployment", "Update", FALSE)>>)
        ELSE StepOut(WithObject(deps, name, dep), Nil,
                     <<get, SiteCall("Deployment", "Update", TRUE)>>)

\* reconcileDeployment: create the Deployment, or set the replica count of
\* the one found
reconcileDeployment(deps, name, website, f) ==
    LET dep == DesiredDeployment(name, website)
        get == SiteCall("Deployment", "Get", ~SiteFails(f, "Deployment", "Get"))
    IN  IF SiteFails(f, "Deployment", "Get")
        THEN StepOut(deps, "get failed", <<get>>)
        ELSE IF name \notin DOMAIN deps
        THEN IF SiteFails(f, "Deployment", "Create")
             THEN StepOut(deps, "create failed",
                          <<get, SiteCall("Deployment", "Create", FALSE)>>)
             ELSE StepOut(WithObject(deps, name, dep), Nil,
                          <<get, SiteCall("Deployment", "Create", TRUE)>>)
        ELSE IF SiteFails(f, "Deployment", "Update")
        THEN StepOut(deps, "update failed",
                     <<get, SiteCall("Deployment", "Update", FALSE)>>)
        ELSE StepOut([deps EXCEPT ![name].Replicas = dep.Replicas], Nil,
                     <<get, SiteCall("Deployment", "Update", TRUE)>>)

\* reconcileService: create the Service unless one is found
reconcileService(svcs, name, website, f) ==
    LET svc == DesiredService(name)
        get == SiteCall("Service", "Get", ~SiteFails(f, "Service", "Get"))
    IN  IF SiteFails(f, "Service", "Get")
        THEN StepOut(svcs, "get failed", <<get>>)
        ELSE IF name \notin DOMAIN svcs
        THEN IF SiteFails(f, "Service", "Create")
             THEN StepOut(svcs, "create failed",
                          <<get, SiteCall("Service", "Create", FALSE)>>)
             ELSE StepOut(WithObject(svcs, name, svc), Nil,
                          <<get, SiteCall("Service", "Create", TRUE)>>)
        ELSE StepOut(svcs, Nil, <<get>>)

\* the phase written for a number of available replicas
PhaseOf(available) == IF available > 0 THEN "Running" ELSE "Pending"

\* mutant: the phase is Running as soon as the Deployment exists
updateStatus_AlwaysRunning(webs, deps, name, website, f) ==
    LET get == SiteCall("Status", "Get", ~SiteFails(f, "Status", "Get"))
    IN  IF SiteFails(f, "Status", "Get")
        THEN StepOut(webs, "get failed", <<get>>)
        ELSE IF name \notin DOMAIN deps
        THEN StepOut(webs, "not found", <<SiteCall("Status", "Get", FALSE)>>)
        ELSE LET dep == deps[name]
                 status == [AvailableReplicas |-> dep.AvailableReplicas,
                            Phase |-> "Running"]
             IN  IF SiteFails(f, "Status", "Update")
                 THEN StepOut(webs, "status update failed",
                              <<get, SiteCall("Status", "Update", FALSE)>>)
                 ELSE StepOut([webs EXCEPT ![name].Status = status], Nil,
                              <<get, SiteCall("Status", "Update", TRUE)>>)

\* updateStatus: read the Deployment and write the status of the Website
\* (r.Status().Update writes the status only)
updateStatus(webs, deps, name, website, f) ==
    LET get == SiteCall("Status", "Get", ~SiteFails(f, "Status", "Get"))
    IN  IF SiteFails(f, "Status", "Get")
        THEN StepOut(webs, "get failed", <<get>>)
        ELSE IF name \notin DOMAIN deps
        THEN StepOut(webs, "not found", <<SiteCall("Status", "Get", FALSE)>>)
        ELSE LET dep == deps[name]
                 status == [AvailableReplicas |-> dep.AvailableReplicas,
                            Phase |-> PhaseOf(dep.AvailableReplicas)]
             IN  IF SiteFails(f, "Status", "Update")
                 THEN StepOut(webs, "status update failed",
                              <<get, SiteCall("Status", "Update", FALSE)>>)
                 ELSE StepOut([webs EXCEPT ![name].Status = status], Nil,
                              <<get, SiteCall("Status", "Update", TRUE)>>)

\* what a Reconcile leaves and returns
SiteOut(webs, deps, svcs, e, tr) ==
    [websites |-> webs, deployments |-> deps, services |-> svcs,
     result |-> EmptyResult, err |-> e, trace |-> tr]

\* WebsiteReconciler.Reconcile, as the outcome of one attempt on key req
\* under fault f.  The Get of the Website answers with the Website or with
\* NotFound; SetControllerReference on an object just built does not fail.
WebsiteReconcileOutcome(req, f) ==
    IF req \notin DOMAIN websites
    THEN SiteOut(websites, deployments, services, Nil, <<>>)
    ELSE LET website == websites[req]
             d == reconcileDeployment(deployments, req, website, f)
             s == reconcileService(services, req, website, f)
             u == updateStatus(websites, d.objs, req, website, f)
         IN  IF d.err # Nil
             THEN SiteOut(websites, d.objs, services, d.err, d.trace)
             ELSE IF s.err # Nil
             THEN SiteOut(websites, d.objs, s.objs, s.err, d.trace \o s.trace)
             ELSE SiteOut(u.objs, d.objs, s.objs, u.err,
                          d.trace \o s.trace \o u.trace)

NoOutcome == [result |-> EmptyResult, err |-> Nil, trace |-> <<>>]

\* one call of Reconcile by the controller runtime
WebsiteReconcile(req) ==
    /\ reconciles < MaxReconciles
    /\ \E f \in SiteFaults :
         LET out == WebsiteReconcileOutcome(req, f)
         IN  /\ websites' = out.websites
             /\ deployments' = out.deployments
             /\ services' = out.services
             /\ outcome' = [result |-> out.result, err |-> out.err, trace |-> out.trace]
    /\ reconciles' = reconciles + 1
    /\ UNCHANGED <<issueVars, labelerVars, providerVars, pureVars>>

\* the user changes the spec of the Website
UpdateWebsite(key, spec) ==
    /\ key \in DOMAIN websites
    /\ websites[key].Spec # spec
    /\ websites' = [websites EXCEPT ![key].Spec = spec]
    /\ UNCHANGED <<deployments, services, outcome, reconciles>>
    /\ UNCHANGED <<issueVars, labelerVars, providerVars, pureVars>>

\* the user deletes the Website
DeleteWebsite(key) ==
    /\ key \in DOMAIN websites
    /\ websites' = Without(websites, key)
    /\ UNCHANGED <<deployments, services, outcome, reconciles>>
    /\ UNCHANGED <<issueVars, labelerVars, providerVars, pureVars>>

\* the garbage collector deletes the objects whose owner is gone
Owned(objs) == {k \in DOMAIN objs : objs[k].Owner # "" /\ objs[k].Owner \notin DOMAIN websites}
GarbageCollect ==
    /\ Owned(deployments) \cup Owned(services) # {}
    /\ deployments' = [k \in DOMAIN deployments \ Owned(deployments) |-> deployments[k]]
    /\ services' = [k \in DOMAIN services \ Owned(services) |-> services[k]]
    /\ UNCHANGED <<websites, outcome, reconciles>>
    /\ UNCHANGED <<issueVars, labelerVars, providerVars, pureVars>>

\* the Deployment controller reports the replicas that are available
DeploymentStatus(key, n) ==
    /\ key \in DOMAIN deployments
    /\ n <= deployments[key].Replicas
    /\ n # deployments[key].AvailableReplicas
    /\ deployments' = [deployments EXCEPT ![key].AvailableReplicas = n]
    /\ UNCHANGED <<websites, services, outcome, reconciles>>
    /\ UNCHANGED <<issueVars, labelerVars, providerVars, pureVars>>

\* somebody scales the Deployment (kubectl scale)
ScaleDeployment(key, n) ==
    /\ key \in DOMAIN deployments
    /\ n # deployments[key].Replicas
    /\ deployments' = [deployments EXCEPT ![key].Replicas = n]
    /\ UNCHANGED <<websites, services, outcome, reconciles>>
    /\ UNCHANGED <<issueVars, labelerVars, providerVars, pureVars>>

\* somebody edits the Service (kubectl edit): another port
EditService(key) ==
    /\ key \in DOMAIN services
    /\ services[key].Port = 80
    /\ services' = [services EXCEPT ![key].Port = 8080]
    /\ UNCHANGED <<websites, deployments, outcome, reconciles>>
    /\ UNCHANGED <<issueVars, labelerVars, providerVars, pureVars>>

\* the Website operator is not running
WebsiteIdle ==
    /\ websites = [k \in {} |-> 0]
    /\ deployments = [k \in {} |-> 0]
    /\ services = [k \in {} |-> 0]
    /\ outcome = NoOutcome
    /\ reconciles = 0

---------------------------------------------------------------------------
(* Specification *)

SecretStates ==
    [s \in SecretNames |->
       IF s = "github-token" THEN [found |-> TRUE, Data |-> {"token"}]
       ELSE IF s = "no-token-secret" THEN [found |-> TRUE, Data |-> {"user"}]
       ELSE [found |-> FALSE, Data |-> {}]]

\* the labeler is not running
LabelerIdle ==
    /\ queue = NewRateLimitingQueue
    /\ clientset = [n \in {} |-> NoLabels]
    /\ lister = [n \in {} |-> NoLabels]
    /\ workers = [w \in Workers |-> IdleWorker]
    /\ userOps = 0

\* The store holds no GitHubIssue, or the one the user has just created.
Init ==
    /\ store \in {[k \in {} |-> 0]}
                 \cup {[k \in Keys |-> NewGitHubIssue(spec, fin)] :
                         spec \in GitHubIssueSpecs, fin \in SUBSET {otherFinalizer}}
    /\ secrets = SecretStates
    /\ mock = NewMockProvider
    /\ result = EmptyResult
    /\ err = Nil
    /\ trace = <<>>
    /\ attempts = 0
    /\ LabelerIdle
    /\ ProviderIdle
    /\ PureIdle
    /\ WebsiteIdle

Next ==
    \/ \E req \in Keys : Reconcile(req)
    \/ \E key \in Keys, spec \in GitHubIssueSpecs : UpdateSpec(key, spec)
    \/ \E key \in Keys : DeleteGitHubIssue(key)
    \/ \E key \in Keys : RemoveOtherFinalizer(key)
    \/ \E key \in Keys : CloseOutOfBand(key)

Spec == Init /\ [][Next]_vars

---------------------------------------------------------------------------
(* Specification of the namespace labeler *)

\* the operator is not running
IssueIdle ==
    /\ store = [k \in {} |-> 0]
    /\ secrets = SecretStates
    /\ mock = NewMockProvider
    /\ result = EmptyResult
    /\ err = Nil
    /\ trace = <<>>
    /\ attempts = 0

\* the Namespaces of the cluster when the labeler starts
InitialClusters ==
    {[n \in {"kube-system"} |-> NoLabels]}
      \cup {PutNamespace([n \in {"kube-system"} |-> NoLabels], "test-ns", labels) :
               labels \in UserLabels}

\* the orders in which the keys of S can be listed
OrdersOf(S) ==
    {o \in [1..Cardinality(S) -> S] : \A i, j \in 1..Cardinality(S) : o[i] = o[j] => i = j}

RECURSIVE AddAll(_, _)
AddAll(q, keys) == IF keys = <<>> THEN q ELSE AddAll(QueueAdd(q, Head(keys)), Tail(keys))

\* After factory.Start and WaitForCacheSync: the cache holds the Namespaces of
\* the cluster and AddFunc has added the key of each to the queue; the worker
\* loop is about to start.
LabelerInit ==
    /\ clientset \in InitialClusters
    /\ lister = clientset
    /\ \E o \in OrdersOf(DOMAIN clientset) : queue = AddAll(NewRateLimitingQueue, o)
    /\ workers = [w \in Workers |-> IdleWorker]
    /\ userOps = 0
    /\ IssueIdle
    /\ ProviderIdle
    /\ PureIdle
    /\ WebsiteIdle

LabelerNext ==
    \/ \E w \in Workers : WorkerGet(w)
    \/ \E w \in Workers : WorkerReconcile(w)
    \/ \E w \in Workers : WorkerRequeue(w)
    \/ \E w \in Workers : WorkerDone(w)
    \/ \E n \in NsKeys : InformerEvent(n)
    \/ \E n \in NsKeys : Resync(n)
    \/ \E item \in NsKeys : DelayElapsed(item)
    \/ \E n \in NsKeys, labels \in UserLabels : CreateNamespace(n, labels)
    \/ \E n \in NsKeys : DeleteNamespace(n)
    \/ \E n \in NsKeys : LabelNamespace(n)

LabelerSpec == LabelerInit /\ [][LabelerNext]_vars

---------------------------------------------------------------------------
(* Specification of the namespace labeler whose queue may be shut down *)

\* The labeler over a cluster that no user changes meanwhile: the workers,
\* the informer and the delaying queue run, and the queue may be shut down
\* at any moment.

ShutdownNext ==
    \/ \E w \in Workers : WorkerGet(w)
    \/ \E w \in Workers : WorkerReconcile(w)
    \/ \E w \in Workers : WorkerRequeue(w)
    \/ \E w \in Workers : WorkerDone(w)
    \/ \E n \in NsKeys : InformerEvent(n)
    \/ \E n \in NsKeys : Resync(n)
    \/ \E item \in NsKeys : DelayElapsed(item)
    \/ ShutDown

ShutdownSpec == LabelerInit /\ [][ShutdownNext]_vars

---------------------------------------------------------------------------
(* Specification of the MockProvider under direct calls *)

\* NewMockProvider(): no issue, no call yet
ProviderInit ==
    /\ mock = NewMockProvider
    /\ ProviderIdle
    /\ store = [k \in {} |-> 0]
    /\ secrets = SecretStates
    /\ result = EmptyResult
    /\ err = Nil
    /\ trace = <<>>
    /\ attempts = 0
    /\ LabelerIdle
    /\ PureIdle
    /\ WebsiteIdle

ProviderNext ==
    \/ \E t \in Callers, c \in ProviderCalls : ProviderLock(t, c)
    \/ \E t \in Callers : GetLoad(t)
    \/ \E t \in Callers : ProviderServe(t)
    \/ \E t \in Callers : ProviderUnlock(t)

ProviderSpec == ProviderInit /\ [][ProviderNext]_vars

---------------------------------------------------------------------------
(* Specification of the Website operator *)

\* No Website, or the one the user has just created; nothing is deployed.
WebsiteInit ==
    /\ websites \in {[k \in {} |-> 0]}
                    \cup {[k \in {websiteKey} |-> NewWebsite(spec)] : spec \in WebsiteSpecs}
    /\ deployments = [k \in {} |-> 0]
    /\ services = [k \in {} |-> 0]
    /\ outcome = NoOutcome
    /\ reconciles = 0
    /\ IssueIdle
    /\ LabelerIdle
    /\ ProviderIdle
    /\ PureIdle

WebsiteNext ==
    \/ \E req \in {websiteKey} : WebsiteReconcile(req)
    \/ \E key \in {websiteKey}, spec \in WebsiteSpecs : UpdateWebsite(key, spec)
    \/ \E key \in {websiteKey} : DeleteWebsite(key)
    \/ GarbageCollect
    \/ \E key \in {websiteKey}, n \in ReplicaCounts : DeploymentStatus(key, n)
    \/ \E key \in {websiteKey}, n \in ReplicaCounts : ScaleDeployment(key, n)
    \/ \E key \in {websiteKey} : EditService(key)

WebsiteSpec == WebsiteInit /\ [][WebsiteNext]_vars

---------------------------------------------------------------------------
(* Specification of labelsMatch applied on its own *)

LabelsMatchInit ==
    /\ callArgs \in LabelArgs \X LabelArgs
    /\ callRet = <<>>
    /\ IssueIdle
    /\ LabelerIdle
    /\ ProviderIdle
    /\ WebsiteIdle

LabelsMatchNext == CallLabelsMatch

LabelsMatchSpec == LabelsMatchInit /\ [][LabelsMatchNext]_vars


---------------------------------------------------------------------------
(* Vocabulary of the properties *)

\* this step is a Reconcile attempt
ReconcileStep == attempts' = attempts + 1

Exists == namespacedName \in DOMAIN store
Gone == namespacedName \notin DOMAIN store
Issue == store[namespacedName]
Deleting == Issue.DeletionTimestamp
HasFinalizer == githubIssueFinalizer \in Issue.Finalizers
IssueNumber == Issue.Status.IssueNumber
CredentialResolvable ==
    /\ secrets[Issue.Spec.TokenSecretRef].found
    /\ "token" \in secrets[Issue.Spec.TokenSecretRef].Data
RemoteKey == issueKey(Issue.Spec.Repo, IssueNumber)

\* the calls named op in a trace
CallsOf(tr, op) == {i \in 1..Len(tr) : tr[i].op = op}
Succeeded(tr, op) == \E i \in 1..Len(tr) : tr[i].op = op /\ tr[i].ok
Failed(tr, op) == \E i \in 1..Len(tr) : tr[i].op = op /\ ~tr[i].ok
StoreWrites(tr) == CallsOf(tr, "store.Update") \cup CallsOf(tr, "store.Status.Update")
RemoteCalls(tr) == (1..Len(tr)) \ StoreWrites(tr)

\* a newly created object whose credential resolves
NewObject ==
    /\ Exists /\ ~Deleting /\ ~HasFinalizer /\ IssueNumber = 0 /\ CredentialResolvable

\* an object that has its finalizer and no remote issue yet
ReadyToCreate ==
    /\ Exists /\ ~Deleting /\ HasFinalizer /\ IssueNumber = 0 /\ CredentialResolvable

\* The remote issues created for the object: the provider serves this one
\* object, so they are the issues it holds.
Created == DOMAIN mock.issues

---------------------------------------------------------------------------
(* C1: finalizer precedes remote creation *)

\* C1 as stated: the first Reconcile of a new object adds and persists the
\* finalizer, returns Requeue with no error and makes no remote call; the
\* Reconcile after it makes exactly one Create call.
C1_FirstAttemptAlwaysPersists ==
    [][ReconcileStep =>
         /\ NewObject =>
              /\ Exists' /\ HasFinalizer'
              /\ result' = RequeueNow /\ err' = Nil
              /\ mock' = mock
         /\ ReadyToCreate => mock'.CreateCalled = mock.CreateCalled + 1]_vars

\* C1 (amended): the first Reconcile of a new object makes no remote call; when
\* its store update succeeds it has persisted the finalizer and returns Requeue
\* with no error, and when the update fails it returns the error and leaves the
\* object as it was.  The Reconcile of an object that has the finalizer and no
\* remote issue makes exactly one Create call.
C1_FinalizerPrecedesCreate ==
    [][ReconcileStep =>
         /\ NewObject =>
              /\ mock' = mock
              /\ RemoteCalls(trace') = {}
              /\ Succeeded(trace', "store.Update") =>
                   /\ Exists' /\ HasFinalizer'
                   /\ result' = RequeueNow /\ err' = Nil
              /\ ~Succeeded(trace', "store.Update") =>
                   /\ store' = store
                   /\ result' = EmptyResult /\ err' # Nil
         /\ ReadyToCreate =>
              /\ mock'.CreateCalled = mock.CreateCalled + 1
              /\ Cardinality(CallsOf(trace', "Create")) = 1]_vars

\* after attempt 1 and attempt 2 of a new object: finalizer kept, one Create call
C1_Witness ==
    /\ Exists /\ HasFinalizer /\ IssueNumber = 1
    /\ attempts = 2
    /\ mock.CreateCalled = 1
    /\ trace = <<Call("Create", TRUE), Call("store.Status.Update", TRUE)>>

---------------------------------------------------------------------------
(* C2: the finalizer guards remote cleanup *)

\* C2 as stated: a remote issue created for the object is open only while
\* the object is in the store with its finalizer.
C2_FinalizerWhileCleanupOwed ==
    \A k \in Created :
        mock.issues[k].State = "open" => (Exists /\ HasFinalizer)

---------------------------------------------------------------------------
(* C3: deletion cleanup *)

\* C3: the attempt on an object being deleted (finalizer, IssueNumber > 0) in
\* which Close and the store update succeed makes one Close call, leaves the
\* remote issue closed and removes the finalizer; an attempt on an object
\* without the finalizer, or on no object, makes no Close call.
C3_DeletionClosesOnce ==
    [][ReconcileStep =>
         /\ ( /\ Exists /\ Deleting /\ HasFinalizer /\ IssueNumber > 0
              /\ Succeeded(trace', "Close") /\ Succeeded(trace', "store.Update") ) =>
              /\ mock'.CloseCalled = mock.CloseCalled + 1
              /\ Cardinality(CallsOf(trace', "Close")) = 1
              /\ mock'.issues[RemoteKey].State = "closed"
              /\ Exists' => ~HasFinalizer'
         /\ (Gone \/ ~HasFinalizer) =>
              /\ mock'.CloseCalled = mock.CloseCalled
              /\ CallsOf(trace', "Close") = {}]_vars

\* the cleanup attempt has happened, and an attempt after it has run
C3_Witness ==
    /\ Gone
    /\ mock.CloseCalled = 1
    /\ issueKey(repo, 1) \in DOMAIN mock.issues
    /\ mock.issues[issueKey(repo, 1)].State = "closed"
    /\ attempts = 4
    /\ trace = <<>>

---------------------------------------------------------------------------
(* C4: Close failure on deletion *)

\* C4: when Close fails for an object being deleted (finalizer, IssueNumber > 0)
\* the attempt keeps the finalizer, writes nothing to the store and returns
\* RequeueAfter 30s with a nil error.
C4_CloseFailureKeepsFinalizer ==
    [][( /\ ReconcileStep
         /\ Exists /\ Deleting /\ HasFinalizer /\ IssueNumber > 0
         /\ Failed(trace', "Close") ) =>
         /\ store' = store
         /\ StoreWrites(trace') = {}
         /\ result' = RequeueAfter(RequeueShort)
         /\ err' = Nil]_vars

C4_Witness ==
    /\ Exists /\ Deleting /\ HasFinalizer /\ IssueNumber > 0
    /\ trace = <<Call("Close", FALSE)>>
    /\ result = RequeueAfter(RequeueShort)

---------------------------------------------------------------------------
(* C5: missing secret *)

\* C5: every attempt on an object whose secret does not exist returns an
\* error, writes nothing to the store and makes no remote call.
C5_MissingSecretIsError ==
    [][( /\ ReconcileStep
         /\ Exists
         /\ ~secrets[Issue.Spec.TokenSecretRef].found ) =>
         /\ err' # Nil
         /\ store' = store
         /\ mock' = mock
         /\ trace' = <<>>]_vars

C5_Witness ==
    /\ Exists
    /\ ~secrets[Issue.Spec.TokenSecretRef].found
    /\ attempts > 0
    /\ err = "secret not found"
    /\ mock.CreateCalled = 0

---------------------------------------------------------------------------
(* C6: secret without a token field *)

\* C6 as stated: an attempt on an object whose secret exists but has no token
\* field returns a non-nil error and makes no remote call.
C6_MissingTokenIsError ==
    [][( /\ ReconcileStep
         /\ Exists
         /\ secrets[Issue.Spec.TokenSecretRef].found
         /\ "token" \notin secrets[Issue.Spec.TokenSecretRef].Data ) =>
         /\ err' # Nil
         /\ mock' = mock]_vars

---------------------------------------------------------------------------
(* C7: object not found *)

\* C7: Reconcile of a key with no object in the store returns the empty
\* result and a nil error, makes no remote call and writes nothing.
C7_NotFoundIsSuccess ==
    [][(ReconcileStep /\ Gone) =>
         /\ result' = EmptyResult
         /\ err' = Nil
         /\ mock' = mock
         /\ store' = store
         /\ trace' = <<>>]_vars

\* an attempt has run on a key that has no object
C7_Witness ==
    /\ Gone
    /\ attempts = 1
    /\ result = EmptyResult /\ err = Nil /\ trace = <<>>
    /\ mock = NewMockProvider

---------------------------------------------------------------------------
(* C8: Status.IssueNumber is stable *)

\* C8: while the object exists, a non-zero persisted Status.IssueNumber never
\* changes, whatever the step (a successful or failing attempt, or the user).
C8_IssueNumberStable ==
    [][(Exists /\ Exists' /\ IssueNumber # 0) =>
         IssueNumber' = IssueNumber]_vars

\* an object with a remote issue has been through a sync attempt
C8_Witness ==
    /\ Exists /\ IssueNumber = 1
    /\ mock.GetCalled > 0
    /\ mock.CreateCalled = 1

---------------------------------------------------------------------------
(* C9: at most one remote issue per object *)

\* C9 as stated: Status.IssueNumber = 0 implies that no remote issue has been
\* created for the object, and no object has more than one remote issue
\* created for it.
C9_OneRemoteIssuePerObject ==
    /\ (Exists /\ IssueNumber = 0) => Created = {}
    /\ Cardinality(Created) <= 1

---------------------------------------------------------------------------
(* C10: idempotent sync *)

\* the two slices hold the same labels, each as many times, in whatever order
SameLabels(a, b) ==
    \A x \in LabelNames :
        Cardinality({i \in 1..Len(a.elems) : a.elems[i] = x})
          = Cardinality({i \in 1..Len(b.elems) : b.elems[i] = x})

\* the remote issue of the object has the spec's title, body and labels and is open
InSync ==
    /\ Exists /\ HasFinalizer /\ IssueNumber > 0
    /\ RemoteKey \in DOMAIN mock.issues
    /\ mock.issues[RemoteKey].Title = Issue.Spec.Title
    /\ mock.issues[RemoteKey].Body = Issue.Spec.Body
    /\ SameLabels(mock.issues[RemoteKey].Labels, Issue.Spec.Labels)
    /\ mock.issues[RemoteKey].State = "open"

---------------------------------------------------------------------------
(* C11: drift correction *)

\* an object in the sync branch: not being deleted, finalizer, credential and
\* a remote issue on record
Syncable ==
    /\ Exists /\ ~Deleting /\ HasFinalizer /\ IssueNumber > 0 /\ CredentialResolvable
    /\ RemoteKey \in DOMAIN mock.issues

TitleDrift == Syncable /\ mock.issues[RemoteKey].Title # Issue.Spec.Title

\* the attempt made exactly one Update call, carrying the spec's title, body
\* and labels
OneUpdateWithSpec ==
    /\ Cardinality(CallsOf(trace', "Update")) = 1
    /\ mock'.UpdateCalled = mock.UpdateCalled + 1
    /\ \A i \in CallsOf(trace', "Update") :
         /\ trace'[i].input.Title = Issue.Spec.Title
         /\ trace'[i].input.Body = Issue.Spec.Body
         /\ trace'[i].input.Labels = Issue.Spec.Labels

\* C11 as stated: an attempt on an object (IssueNumber > 0) whose remote title
\* differs from the spec title makes exactly one Update call, carrying the
\* spec's title, body and labels.
C11_DriftAlwaysUpdates ==
    [][(ReconcileStep /\ TitleDrift) => OneUpdateWithSpec]_vars

\* C11 (amended): such an attempt, when its Get succeeds and no Reopen fails,
\* makes exactly one Update call, carrying the spec's title, body and labels;
\* when Get or Reopen fails it makes no Update call.
C11_DriftUpdatesOnce ==
    [][(ReconcileStep /\ TitleDrift) =>
         IF Succeeded(trace', "Get") /\ ~Failed(trace', "Reopen")
         THEN OneUpdateWithSpec
         ELSE /\ CallsOf(trace', "Update") = {}
              /\ mock'.UpdateCalled = mock.UpdateCalled]_vars

\* the third attempt has pushed the edited title: body and labels were never
\* edited (they are still empty on both sides), so the drift was the title
C11_Witness ==
    /\ Syncable /\ Issue.Generation = 2
    /\ attempts = 3
    /\ Issue.Spec.Title = "Updated Title"
    /\ Issue.Spec.Body = "" /\ Issue.Spec.Labels = NilSlice
    /\ mock.issues[RemoteKey].Title = "Updated Title"
    /\ mock.issues[RemoteKey].Body = ""
    /\ mock.issues[RemoteKey].Labels = NilSlice
    /\ mock.GetCalled = 1 /\ mock.UpdateCalled = 1
    /\ trace = <<Call("Get", TRUE),
                 CallWith("Update", TRUE,
                          [Title |-> "Updated Title", Body |-> "", Labels |-> NilSlice])>>
    /\ result = RequeueAfter(RequeuePeriodic) /\ err = Nil

---------------------------------------------------------------------------
(* C12: external close correction *)

\* the remote issue of a syncable object was closed out-of-band
ClosedRemotely == Syncable /\ mock.issues[RemoteKey].State = "closed"

\* C12 as stated: the attempt on an object (not being deleted, IssueNumber > 0)
\* whose remote issue was closed out-of-band calls Reopen exactly once and
\* leaves the remote issue open.
C12_ClosedAlwaysReopened ==
    [][(ReconcileStep /\ ClosedRemotely) =>
         /\ Cardinality(CallsOf(trace', "Reopen")) = 1
         /\ mock'.issues[RemoteKey].State = "open"]_vars

\* C12 (amended): such an attempt, when its Get and its Reopen succeed, has
\* called Reopen exactly once and leaves the remote issue open; when Get fails
\* it calls no Reopen, when Reopen fails it has called it once, and in both
\* cases the remote issue stays closed.
C12_ClosedReopenedOnce ==
    [][(ReconcileStep /\ ClosedRemotely) =>
         /\ Succeeded(trace', "Get") => Cardinality(CallsOf(trace', "Reopen")) = 1
         /\ ~Succeeded(trace', "Get") => CallsOf(trace', "Reopen") = {}
         /\ Succeeded(trace', "Reopen") => mock'.issues[RemoteKey].State = "open"
         /\ ~Succeeded(trace', "Reopen") => mock'.issues[RemoteKey].State = "closed"]_vars

\* an attempt has reopened the issue somebody had closed
C12_Witness ==
    /\ Syncable
    /\ trace = <<Call("Get", TRUE), Call("Reopen", TRUE)>>
    /\ mock.issues[RemoteKey].State = "open"
    /\ result = RequeueAfter(RequeuePeriodic) /\ err = Nil

---------------------------------------------------------------------------
(* C13: periodic requeue on the normal exit *)

\* the attempt met no failure: every remote call and store write it made succeeded
NoFailure(tr) == \A i \in 1..Len(tr) : tr[i].ok

\* C13: an attempt on an object that is not being deleted and has the
\* finalizer, that goes through the create branch or the sync branch without
\* any failure, returns RequeueAfter 5 minutes and a nil error.
C13_NormalExitRequeuesPeriodically ==
    [][( /\ ReconcileStep
         /\ Exists /\ ~Deleting /\ HasFinalizer /\ CredentialResolvable
         /\ NoFailure(trace') ) =>
         /\ result' = [Requeue |-> FALSE, RequeueAfter |-> 300]
         /\ err' = Nil]_vars

\* a sync attempt that reopened and updated the remote issue has ended normally
C13_Witness ==
    /\ Exists /\ ~Deleting /\ HasFinalizer /\ CredentialResolvable
    /\ Len(trace) = 3 /\ NoFailure(trace)
    /\ trace[1].op = "Get" /\ trace[2].op = "Reopen" /\ trace[3].op = "Update"
    /\ result = [Requeue |-> FALSE, RequeueAfter |-> 300]
    /\ err = Nil

---------------------------------------------------------------------------
(* C14: Reopen and Update failures in the sync branch *)

\* the last call of the trace is a failed call named op
EndsWithFailed(tr, op) == tr # <<>> /\ tr[Len(tr)].op = op /\ ~tr[Len(tr)].ok

\* C14: in the sync branch a failing Reopen or a failing Update ends the
\* attempt (it is the last call made, and nothing is written to the store)
\* with RequeueAfter 30s and a nil error.
C14_SyncFailureIsShortRequeue ==
    [][( /\ ReconcileStep
         /\ Syncable
         /\ (Failed(trace', "Reopen") \/ Failed(trace', "Update")) ) =>
         /\ EndsWithFailed(trace', "Reopen") \/ EndsWithFailed(trace', "Update")
         /\ result' = [Requeue |-> FALSE, RequeueAfter |-> 30]
         /\ err' = Nil
         /\ store' = store]_vars

\* the Update of a sync attempt has failed after a successful Reopen
C14_Witness ==
    /\ Syncable
    /\ Len(trace) = 3
    /\ trace[1] = Call("Get", TRUE) /\ trace[2] = Call("Reopen", TRUE)
    /\ trace[3].op = "Update" /\ ~trace[3].ok
    /\ result = [Requeue |-> FALSE, RequeueAfter |-> 30]
    /\ err = Nil

---------------------------------------------------------------------------
(* C15: Create and Get failures are propagated *)

\* C15: an attempt whose Create call (create branch) or Get call (sync branch)
\* fails returns a non-nil error, leaves the store and with it the persisted
\* Status unchanged and makes no other remote call.
C15_CreateGetFailurePropagates ==
    [][( /\ ReconcileStep
         /\ Exists
         /\ (Failed(trace', "Create") \/ Failed(trace', "Get")) ) =>
         /\ err' # Nil
         /\ result' = EmptyResult
         /\ Exists' /\ Issue'.Status = Issue.Status
         /\ store' = store
         /\ Cardinality(RemoteCalls(trace')) = 1
         /\ mock'.issues = mock.issues]_vars

\* the Get of a sync attempt has failed
C15_Witness ==
    /\ Exists /\ ~Deleting /\ IssueNumber = 1
    /\ trace = <<Call("Get", FALSE)>>
    /\ err = "get failed"
    /\ result = EmptyResult
    /\ Issue.Status = [IssueNumber |-> 1, IssueURL |-> IssueURLOf(repo, 1), State |-> "open"]

---------------------------------------------------------------------------
(* Vocabulary of the labeler's properties *)

Range(s) == {s[i] : i \in 1..Len(s)}
\* the places of key k in the pending backlog
PlacesOf(q, k) == {i \in 1..Len(q.queue) : q.queue[i] = k}
Pending(q, k) == PlacesOf(q, k) # {}

\* worker w holds a key: it is between its Get and its Done
InFlight(w) == workers[w].pc \in {"reconcile", "requeue", "Done", "panic"}

\* the keys for which this step delivers an add or update notification
Notified ==
    {n \in DOMAIN lister' : n \notin DOMAIN lister \/ lister[n] # lister'[n]}

---------------------------------------------------------------------------
(* C16: queue deduplication *)

\* C16: an Add for a key that is pending leaves the backlog as it is; the
\* backlog never holds a key twice, and never holds a key that is in flight,
\* so a pending key is dequeued once before Done is called for it.
C16_PendingKeyOnce ==
    [][/\ \A n \in Notified : Pending(queue, n) => queue'.queue = queue.queue
       /\ \A k \in NsKeys :
            /\ Cardinality(PlacesOf(queue', k)) <= 1
            /\ k \in queue'.processing => ~Pending(queue', k)]_vars

\* the update notification of test-ns has arrived while the key is pending:
\* the key is in the backlog once
C16_Witness ==
    /\ userOps = 1
    /\ "test-ns" \in DOMAIN lister
    /\ lister["test-ns"] = WithLabel(Label("env", "production"), "team", "backend")
    /\ lister = clientset
    /\ queue.queue = <<"test-ns", "kube-system">>
    /\ queue.processing = {}
    /\ \A w \in Workers : workers[w] = IdleWorker

---------------------------------------------------------------------------
(* C17: one worker per key *)

\* C17: no two workers hold the same key at the same time, and the key a
\* worker holds is marked in flight until the worker has called Done, so Get
\* does not return it meanwhile.
C17_KeyInOneWorker ==
    /\ \A w1, w2 \in Workers :
         (w1 # w2 /\ InFlight(w1) /\ InFlight(w2)) => workers[w1].key # workers[w2].key
    /\ \A w \in Workers :
         InFlight(w) => /\ workers[w].key \in queue.processing
                        /\ ~Pending(queue, workers[w].key)

\* a key was added again while a worker holds it, another worker is waiting
\* in Get and the backlog is empty: the key is not delivered to it
C17_Witness ==
    \E w1, w2 \in Workers :
        /\ w1 # w2
        /\ workers[w1].pc = "reconcile"
        /\ workers[w1].key \in queue.dirty
        /\ workers[w2].pc = "Get"
        /\ queue.queue = <<>>

---------------------------------------------------------------------------
(* C18: a key added while in flight *)

\* C18: when a worker that holds key k ends its iteration and k was added
\* while it was in flight, k is pending afterwards, once, however many Adds
\* arrived; the Get that then delivers k leaves no second instance of it.
C18_ReAddedAfterDone ==
    [][\A w \in Workers :
         /\ ( /\ workers[w].pc = "Done" /\ workers'[w].pc = "Get"
              /\ workers[w].key \in queue.dirty ) =>
              /\ Cardinality(PlacesOf(queue', workers[w].key)) = 1
              /\ workers[w].key \notin queue'.processing
         /\ ( /\ workers[w].pc = "Get" /\ workers'[w].pc = "reconcile" ) =>
              /\ ~Pending(queue', workers'[w].key)
              /\ workers'[w].key \notin queue'.dirty]_vars

\* test-ns was added while a worker held it (the update notification of the
\* worker's own patch has arrived) and the worker is about to call Done
C18_Witness ==
    \E w \in Workers :
        /\ workers[w].pc = "Done" /\ workers[w].key = "test-ns"
        /\ workers[w].calls = <<"reconcile", "Forget">>
        /\ "test-ns" \in queue.dirty /\ "test-ns" \in queue.processing
        /\ ~Pending(queue, "test-ns")
        /\ "test-ns" \in DOMAIN lister
        /\ lister["test-ns"] = WithLabel(NoLabels, "team", "unassigned")

---------------------------------------------------------------------------
(* C19: the bookkeeping of one delivery *)

\* worker w calls op in this step
Calls(w, op) == workers'[w].calls = Append(workers[w].calls, op)
\* worker w calls Done in this step: the key it holds is released
CallsDone(w) ==
    /\ InFlight(w)
    /\ workers[w].key \in queue.processing
    /\ workers[w].key \notin queue'.processing

\* C19: for the key it holds a worker calls reconcile once, as its first call;
\* then Forget when reconcile returned no error, which leaves the key's failure
\* count at zero, or AddRateLimited when it returned an error, which counts
\* one more failure; and Done only after one of the two.
C19_ReconcileThenRequeueThenDone ==
    [][\A w \in Workers :
         /\ Calls(w, "reconcile") => workers[w].calls = <<>>
         /\ Calls(w, "Forget") =>
              /\ workers[w].calls = <<"reconcile">>
              /\ workers[w].err = NoError
              /\ queue'.failures[workers[w].key] = 0
         /\ Calls(w, "AddRateLimited") =>
              /\ workers[w].calls = <<"reconcile">>
              /\ workers[w].err # NoError
              /\ queue'.failures[workers[w].key] = queue.failures[workers[w].key] + 1
         /\ CallsDone(w) =>
              \/ workers[w].calls = <<"reconcile", "Forget">> /\ workers[w].err = NoError
              \/ workers[w].calls = <<"reconcile", "AddRateLimited">>
                   /\ workers[w].err # NoError]_vars

\* one worker is about to call Done after a failed reconcile and
\* AddRateLimited, the other after a successful one and Forget
C19_Witness ==
    \E w1, w2 \in Workers :
        /\ workers[w1].pc = "Done" /\ workers[w2].pc = "Done"
        /\ workers[w1].calls = <<"reconcile", "AddRateLimited">>
        /\ workers[w1].err # NoError
        /\ queue.failures[workers[w1].key] = 1
        /\ workers[w1].key \in queue.waiting
        /\ workers[w2].calls = <<"reconcile", "Forget">>
        /\ workers[w2].err = NoError
        /\ queue.failures[workers[w2].key] = 0

---------------------------------------------------------------------------
(* C20: Done after a panic *)

\* C20 as stated: Done is called for the key a worker holds also when
\* reconcile panics, so a worker whose reconcile has panicked leaves no key
\* marked in flight.
C20_DoneAfterPanic ==
    \A w \in Workers :
        workers[w].pc = "panic" => workers[w].key \notin queue.processing

---------------------------------------------------------------------------
(* C21: labelsMatch and the sets of labels *)

\* C21 as stated: for all label lists a and b, lists with repeated elements
\* included, labelsMatch(a, b) is true exactly when the set of elements of a
\* equals the set of elements of b.
C21_SetEquality ==
    callRet # <<>> =>
        (callRet[1] <=> Range(callArgs[1].elems) = Range(callArgs[2].elems))

---------------------------------------------------------------------------
(* Vocabulary of the properties of the MockProvider *)

\* caller t's call of op is served in this step, by the method itself (no
\* override installed)
Serves(t, op) ==
    /\ ProviderServe(t)
    /\ callers[t].call.op = op
    /\ ~callers[t].call.override

\* the key of the issue that caller t's call names
KeyOf(t) == issueKey(callers[t].call.repo, callers[t].call.number)

\* every caller is between two calls
Quiescent == \A t \in Callers : callers[t].pc = "idle"

---------------------------------------------------------------------------
(* C22: Update changes the supplied fields only *)

\* C22: Update changes only the supplied fields: an empty title or body
\* leaves the issue's title or body as it was, nil labels leave the labels as
\* they were, an empty non-nil label list clears the labels, and the number,
\* the URL and the state of the issue, and every other issue, are never
\* changed by Update; the request the live adapter sends carries the same
\* fields and never a state.
C22_UpdateChangesOnlySupplied ==
    [][\A t \in Callers :
         Serves(t, "Update") =>
           LET in == callers[t].call.update
               req == IssueRequest(in)
           IN  /\ DOMAIN mock'.issues = DOMAIN mock.issues
               /\ \A k \in DOMAIN mock.issues \ {KeyOf(t)} :
                      mock'.issues[k] = mock.issues[k]
               /\ KeyOf(t) \in DOMAIN mock.issues =>
                    LET old == mock.issues[KeyOf(t)]
                        new == mock'.issues[KeyOf(t)]
                    IN  /\ new.Title = IF in.Title = "" THEN old.Title ELSE in.Title
                        /\ new.Body = IF in.Body = "" THEN old.Body ELSE in.Body
                        /\ in.Labels.isNil => new.Labels = old.Labels
                        /\ ~in.Labels.isNil => new.Labels = in.Labels
                        /\ in.Labels = Slice(<<>>) => new.Labels.elems = <<>>
                        /\ new.Number = old.Number
                        /\ new.URL = old.URL
                        /\ new.State = old.State
               /\ (req.Title = <<>>) <=> (in.Title = "")
               /\ (req.Body = <<>>) <=> (in.Body = "")
               /\ (req.Labels = <<>>) <=> in.Labels.isNil
               /\ in.Labels = Slice(<<>>) => req.Labels = << <<>> >>
               /\ req.State = <<>>]_vars

\* an Update that supplies an empty label list and nothing else has been
\* served for a closed issue that had a label: the labels are gone, the title,
\* the body and the state are as they were
C22_Witness ==
    \E t \in Callers :
        /\ callers[t].pc = "served"
        /\ callers[t].call.op = "Update"
        /\ callers[t].call.update = [Title |-> "", Body |-> "", Labels |-> Slice(<<>>)]
        /\ ~callers[t].out.err
        /\ KeyOf(t) \in DOMAIN mock.issues
        /\ mock.issues[KeyOf(t)].Labels = Slice(<<>>)
        /\ mock.issues[KeyOf(t)].Title = "Test Issue"
        /\ mock.issues[KeyOf(t)].Body = "This is a test issue"
        /\ mock.issues[KeyOf(t)].State = "closed"
        /\ callsMade["Update"] = 1

---------------------------------------------------------------------------
(* C23: the MockProvider under concurrent calls *)

\* caller t is inside a method, holding m.mu
Holds(t) == callers[t].pc \in {"locked", "loaded", "served"}
\* the methods whose body writes a counter or the map
Writes(op) == op \in {"Create", "Get", "Update", "Close", "Reopen"}

\* C23 as stated: the lock excludes every conflicting access to the map and
\* the counters (no two callers are inside the provider when one of them is
\* in a method that writes), so no counter increment is lost: between calls
\* every counter equals the number of calls served (after k concurrent Get
\* calls, GetCalled = k).
C23_NoLostIncrement ==
    /\ \A t, u \in Callers :
           (t # u /\ Holds(t) /\ Holds(u)) => ~Writes(callers[t].call.op)
    /\ Quiescent =>
           /\ mock.CreateCalled = callsMade["Create"]
           /\ mock.GetCalled = callsMade["Get"]
           /\ mock.UpdateCalled = callsMade["Update"]
           /\ mock.CloseCalled = callsMade["Close"]

---------------------------------------------------------------------------
(* C24: the call counts of the MockProvider *)

\* the name under which the /stats handler would report the calls of op
StatsKey(op) ==
    CASE op = "Create" -> "createCalled"
      [] op = "Get" -> "getCalled"
      [] op = "Update" -> "updateCalled"
      [] op = "Close" -> "closeCalled"
      [] op = "Reopen" -> "reopenCalled"
\* stats[key] as Go reads a map[string]int: 0 for a key the map does not hold
Lookup(stats, key) == IF key \in DOMAIN stats THEN stats[key] ELSE 0

\* C24 as stated: for each of the five operations (create, get, update,
\* close, reopen) the count kept equals the number of calls made to it, also
\* when an override is installed, and the counters snapshot reports these
\* counts and changes no state.
C24_CountsEveryOperation ==
    /\ [](Quiescent =>
            \A op \in Operations : Lookup(Stats(mock), StatsKey(op)) = callsMade[op])
    /\ [][\A t \in Callers :
            Serves(t, "Stats") =>
              /\ mock' = mock
              /\ \A op \in Operations :
                     Lookup(callers'[t].out.stats, StatsKey(op)) = callsMade[op]]_vars

---------------------------------------------------------------------------
(* Vocabulary of the properties of reconcile (labeler) *)

\* worker w's call of reconcile returns in this step (it does not panic)
Reconciled(w) == Calls(w, "reconcile") /\ workers'[w].pc = "requeue"

\* the reconcile call worker w is about to make issues a Patch
Patches(w) == reconcile(workers[w].key, "none").patched

\* Namespace n is no system namespace and carries no team label, neither in
\* the API server nor in the informer cache
Unlabeled(n) ==
    /\ n \notin systemNamespaces
    /\ n \in DOMAIN lister
    /\ n \in DOMAIN clientset
    /\ "team" \notin DOMAIN lister[n]
    /\ "team" \notin DOMAIN clientset[n]

\* in this step Namespace n of the API server gets team=unassigned and
\* nothing else changes: its other labels and the other Namespaces are as
\* they were
TeamAdded(n) ==
    /\ DOMAIN clientset' = DOMAIN clientset
    /\ \A x \in DOMAIN clientset \ {n} : clientset'[x] = clientset[x]
    /\ DOMAIN clientset'[n] = DOMAIN clientset[n] \cup {"team"}
    /\ clientset'[n]["team"] = "unassigned"
    /\ \A k \in DOMAIN clientset[n] \ {"team"} : clientset'[n][k] = clientset[n][k]

---------------------------------------------------------------------------
(* C25: an unlabeled namespace gets team=unassigned *)

\* C25 as stated: reconcile of a non-system namespace that has no team label
\* returns no error and leaves the namespace with team=unassigned and with
\* every label it already had.
C25_UnlabeledGetsTeam ==
    [][\A w \in Workers :
         (Reconciled(w) /\ Unlabeled(workers[w].key)) =>
             /\ workers'[w].err = NoError
             /\ TeamAdded(workers[w].key)]_vars

\* C25, amended: reconcile of a non-system namespace that has no team label
\* either returns no error and leaves the namespace with team=unassigned and
\* with every label it already had (the Patch succeeded), or returns the
\* error of the Patch and leaves every namespace as it was.
C25_UnlabeledGetsTeamUnlessPatchFails ==
    [][\A w \in Workers :
         (Reconciled(w) /\ Unlabeled(workers[w].key)) =>
             /\ Patches(w)
             /\ \/ workers'[w].err = NoError /\ TeamAdded(workers[w].key)
                \/ workers'[w].err = "patch failed" /\ clientset' = clientset]_vars

\* reconcile has returned nil for test-ns, which had the label env=production
\* alone (the cache still shows it so): the API server holds both labels
C25_Witness ==
    \E w \in Workers :
        /\ workers[w].pc = "requeue"
        /\ workers[w].key = "test-ns"
        /\ workers[w].err = NoError
        /\ "test-ns" \in DOMAIN lister
        /\ lister["test-ns"] = Label("env", "production")
        /\ "test-ns" \in DOMAIN clientset
        /\ clientset["test-ns"] = WithLabel(Label("env", "production"), "team", "unassigned")

---------------------------------------------------------------------------
(* C26: an existing team label *)

\* C26 as stated: reconcile never changes the value of an existing team
\* label: a namespace that carries a team label in the API server carries it
\* with the same value after reconcile, also when the informer cache lags
\* behind the API server.
C26_TeamLabelKept ==
    [][\A w \in Workers, n \in NsKeys :
         (Calls(w, "reconcile") /\ n \in DOMAIN clientset
              /\ "team" \in DOMAIN clientset[n]) =>
             /\ n \in DOMAIN clientset'
             /\ "team" \in DOMAIN clientset'[n]
             /\ clientset'[n]["team"] = clientset[n]["team"]]_vars

---------------------------------------------------------------------------
(* C27: the system namespaces *)

\* C27: reconcile of a system namespace returns no error and issues no
\* patch, and no reconcile, of whatever key, changes a system namespace: such
\* a namespace never gets a team label from the controller.
C27_SystemNamespacesSkipped ==
    [][\A w \in Workers :
         /\ Calls(w, "reconcile") =>
              \A n \in systemNamespaces \cap DOMAIN clientset :
                  n \in DOMAIN clientset' /\ clientset'[n] = clientset[n]
         /\ (Reconciled(w) /\ workers[w].key \in systemNamespaces
                 /\ workers[w].key \in DOMAIN lister) =>
              /\ workers'[w].err = NoError
              /\ ~Patches(w)
              /\ clientset' = clientset]_vars

\* reconcile has returned nil for kube-system, which carries no label,
\* while test-ns has got its team label from the controller
C27_Witness ==
    \E w \in Workers :
        /\ workers[w].pc = "requeue"
        /\ workers[w].key = "kube-system"
        /\ workers[w].err = NoError
        /\ workers[w].calls = <<"reconcile">>
        /\ "kube-system" \in DOMAIN clientset
        /\ clientset["kube-system"] = NoLabels
        /\ "test-ns" \in DOMAIN clientset
        /\ clientset["test-ns"] = Label("team", "unassigned")

---------------------------------------------------------------------------
(* C28: a key whose namespace is not in the cache *)

\* C28: reconcile of a key whose namespace is not in the cache returns an
\* error and issues no patch; the worker loop answers an error of reconcile
\* with AddRateLimited, which leaves the key waiting for its backoff delay
\* while it is still in flight, and calls Done only after that.
C28_MissingKeyRequeued ==
    [][\A w \in Workers :
         /\ (Reconciled(w) /\ workers[w].key \notin DOMAIN lister) =>
              /\ workers'[w].err # NoError
              /\ ~Patches(w)
              /\ clientset' = clientset
         /\ (workers[w].pc = "requeue" /\ workers'[w].pc # "requeue"
                 /\ workers[w].err # NoError) =>
              /\ Calls(w, "AddRateLimited")
              /\ workers[w].key \in queue'.waiting
              /\ workers[w].key \in queue'.processing
         /\ (CallsDone(w) /\ workers[w].err # NoError) =>
              workers[w].calls = <<"reconcile", "AddRateLimited">>]_vars

\* a worker is about to call Done for test-ns, which has been deleted and
\* has left the cache: reconcile returned an error and the key waits for
\* its backoff delay
C28_Witness ==
    \E w \in Workers :
        /\ workers[w].pc = "Done"
        /\ workers[w].key = "test-ns"
        /\ "test-ns" \notin DOMAIN lister
        /\ "test-ns" \notin DOMAIN clientset
        /\ workers[w].err # NoError
        /\ workers[w].calls = <<"reconcile", "AddRateLimited">>
        /\ "test-ns" \in queue.waiting
        /\ "test-ns" \in queue.processing
        /\ queue.failures["test-ns"] = 1

---------------------------------------------------------------------------
(* Vocabulary of the branches of Reconcile *)

\* the branch a Reconcile of the object takes, read off the object before
\* the attempt (every branch comes after the credential has been resolved)
AtDeletion == Exists /\ CredentialResolvable /\ Deleting
AtFinalizerAdd == Exists /\ CredentialResolvable /\ ~Deleting /\ ~HasFinalizer
AtCreate == Exists /\ CredentialResolvable /\ ~Deleting /\ HasFinalizer /\ IssueNumber = 0
AtSync == Exists /\ CredentialResolvable /\ ~Deleting /\ HasFinalizer /\ IssueNumber > 0

---------------------------------------------------------------------------
(* C29: what Reconcile writes to the store *)

\* C29: Reconcile never changes the spec of the object; it writes the
\* finalizer set (r.Update) only in the deletion branch and the finalizer-add
\* branch and the status (r.Status().Update) only in the create branch and
\* the sync branch; the finalizer set or the status changes only by such a
\* write, and a status write changes neither the spec nor the finalizer set.
C29_WritesOfReconcile ==
    [][ReconcileStep =>
         /\ ~Exists => store' = store
         /\ (Exists /\ Exists') => Issue'.Spec = Issue.Spec
         /\ CallsOf(trace', "store.Update") # {} => (AtDeletion \/ AtFinalizerAdd)
         /\ (Exists /\ (Exists' => Issue'.Finalizers # Issue.Finalizers)) =>
              /\ AtDeletion \/ AtFinalizerAdd
              /\ Succeeded(trace', "store.Update")
         /\ CallsOf(trace', "store.Status.Update") # {} => (AtCreate \/ AtSync)
         /\ (Exists /\ Exists' /\ Issue'.Status # Issue.Status) =>
              /\ AtCreate \/ AtSync
              /\ Succeeded(trace', "store.Status.Update")
         /\ (Exists /\ Succeeded(trace', "store.Status.Update")) =>
              /\ Exists'
              /\ Issue'.Spec = Issue.Spec
              /\ Issue'.Finalizers = Issue.Finalizers
              /\ Issue'.DeletionTimestamp = Issue.DeletionTimestamp]_vars

\* the create branch has written the status of an object that carries both
\* finalizers: the finalizers are still there
C29_Witness ==
    /\ Exists
    /\ ~Deleting
    /\ Succeeded(trace, "store.Status.Update")
    /\ Succeeded(trace, "Create")
    /\ IssueNumber = 1
    /\ Issue.Finalizers = {githubIssueFinalizer, otherFinalizer}
    /\ attempts = 2

---------------------------------------------------------------------------
(* C30: deletion without the finalizer *)

---------------------------------------------------------------------------
(* C31: the spec is authoritative for title, body and labels *)

\* the remote issue of the object carries the spec's title and body and the
\* spec's set of labels
RemoteEqualsSpec ==
    /\ Exists /\ IssueNumber > 0
    /\ RemoteKey \in DOMAIN mock.issues
    /\ mock.issues[RemoteKey].Title = Issue.Spec.Title
    /\ mock.issues[RemoteKey].Body = Issue.Spec.Body
    /\ Range(mock.issues[RemoteKey].Labels.elems) = Range(Issue.Spec.Labels.elems)

\* the drift test of the sync branch finds nothing to push
NoDrift ==
    /\ Exists /\ IssueNumber > 0
    /\ RemoteKey \in DOMAIN mock.issues
    /\ mock.issues[RemoteKey].Title = Issue.Spec.Title
    /\ mock.issues[RemoteKey].Body = Issue.Spec.Body
    /\ labelsMatch(mock.issues[RemoteKey].Labels, Issue.Spec.Labels)

\* C31 as stated: after every Reconcile attempt that ends in the normal exit
\* the remote issue's title, body and label set equal the spec's, for every
\* spec (an empty body, an empty or absent label list included), so that a
\* Reconcile that follows at once finds no drift and makes no Update call.
C31_SpecIsAuthoritative ==
    [][(ReconcileStep /\ result' = RequeueAfter(RequeuePeriodic) /\ err' = Nil) =>
         (RemoteEqualsSpec' /\ NoDrift')]_vars

---------------------------------------------------------------------------
(* C32: the order of the remote calls of the sync branch *)

\* the place of the call of op in a trace that holds one (0 when it holds none)
PlaceOf(tr, op) == IF CallsOf(tr, op) = {} THEN 0 ELSE CHOOSE i \in CallsOf(tr, op) : TRUE

\* the remote issue on record differs from the spec in title, body or labels
Drifted ==
    /\ RemoteKey \in DOMAIN mock.issues
    /\ \/ mock.issues[RemoteKey].Title # Issue.Spec.Title
       \/ mock.issues[RemoteKey].Body # Issue.Spec.Body
       \/ ~SameLabels(mock.issues[RemoteKey].Labels, Issue.Spec.Labels)

\* C32: a sync-branch attempt calls Get first, then Reopen, only if the
\* fetched issue is closed, then Update, only if title, body or labels have
\* drifted, each at most once and nothing else on the remote side; an attempt
\* whose Reopen fails makes no Update call and no status write.
C32_SyncCallOrder ==
    [][(ReconcileStep /\ AtSync) =>
         /\ Len(trace') >= 1 /\ trace'[1].op = "Get"
         /\ \A op \in {"Get", "Reopen", "Update", "store.Status.Update"} :
                Cardinality(CallsOf(trace', op)) <= 1
         /\ \A i \in 1..Len(trace') :
                trace'[i].op \in {"Get", "Reopen", "Update", "store.Status.Update"}
         /\ CallsOf(trace', "Reopen") # {} =>
              /\ PlaceOf(trace', "Reopen") = 2
              /\ Succeeded(trace', "Get")
              /\ mock.issues[RemoteKey].State = "closed"
         /\ CallsOf(trace', "Update") # {} =>
              /\ PlaceOf(trace', "Update") = PlaceOf(trace', "Reopen") + 1
                   \/ (CallsOf(trace', "Reopen") = {} /\ PlaceOf(trace', "Update") = 2)
              /\ Succeeded(trace', "Get")
              /\ Drifted
         /\ CallsOf(trace', "store.Status.Update") # {} =>
              PlaceOf(trace', "store.Status.Update") = Len(trace')
         /\ Failed(trace', "Reopen") =>
              /\ CallsOf(trace', "Update") = {}
              /\ CallsOf(trace', "store.Status.Update") = {}
              /\ mock'.UpdateCalled = mock.UpdateCalled
              /\ store' = store]_vars

\* a sync attempt on an issue that was closed out-of-band and whose spec was
\* edited has called Get, Reopen and Update, in this order
C32_Witness ==
    /\ Syncable
    /\ Len(trace) = 3
    /\ trace[1] = Call("Get", TRUE)
    /\ trace[2] = Call("Reopen", TRUE)
    /\ trace[3].op = "Update" /\ trace[3].ok
    /\ mock.UpdateCalled = 1
    /\ mock.issues[RemoteKey].State = "open"
    /\ result = RequeueAfter(RequeuePeriodic)

---------------------------------------------------------------------------
(* C33: deletion of an object that has no remote issue *)

\* C33: Reconcile of an object whose deletion marker is set, that has the
\* finalizer and no remote issue on record (credential resolvable) makes no
\* remote call; it removes the finalizer, persists that and returns the empty
\* result and no error, or, when persisting fails, returns the error and
\* leaves the object as it was.
C33_DeletionWithoutRemoteIssue ==
    [][(ReconcileStep /\ AtDeletion /\ HasFinalizer /\ IssueNumber = 0) =>
         /\ RemoteCalls(trace') = {}
         /\ mock' = mock
         /\ Cardinality(CallsOf(trace', "store.Update")) = 1
         /\ CallsOf(trace', "store.Status.Update") = {}
         /\ result' = EmptyResult
         /\ IF Succeeded(trace', "store.Update")
            THEN /\ err' = Nil
                 /\ Exists' <=> Issue.Finalizers # {githubIssueFinalizer}
                 /\ Exists' =>
                      /\ Issue'.Finalizers = Issue.Finalizers \ {githubIssueFinalizer}
                      /\ Issue'.Spec = Issue.Spec
                      /\ Issue'.Status = Issue.Status
            ELSE /\ err' # Nil
                 /\ store' = store]_vars

\* the finalizer of an object that never got a remote issue has been
\* removed: no call was made to the provider, and somebody else's finalizer
\* keeps the object in the store
C33_Witness ==
    /\ Exists
    /\ Deleting
    /\ ~HasFinalizer
    /\ IssueNumber = 0
    /\ CredentialResolvable
    /\ trace = <<Call("store.Update", TRUE)>>
    /\ result = EmptyResult
    /\ err = Nil
    /\ mock = NewMockProvider
    /\ attempts = 2

---------------------------------------------------------------------------
(* C34: deletion while the credential cannot be resolved *)

\* C34: an attempt on an object that is marked for deletion and whose
\* credential cannot be resolved ends before the deletion branch: it leaves
\* the object, its finalizer included, and the remote system as they were and
\* makes no remote call and no store write, also when no remote issue is on
\* record.
C34_UnresolvableCredentialKeepsFinalizer ==
    [][(ReconcileStep /\ Exists /\ Deleting /\ ~CredentialResolvable) =>
         /\ store' = store
         /\ mock' = mock
         /\ trace' = <<>>
         /\ \/ err' # Nil /\ result' = EmptyResult
            \/ err' = Nil /\ result' = RequeueAfter(RequeueShort)]_vars

\* an object with the finalizer and without remote issue is marked for
\* deletion, its Secret does not exist and an attempt has returned the error
C34_Witness ==
    /\ Exists
    /\ Deleting
    /\ HasFinalizer
    /\ IssueNumber = 0
    /\ ~secrets[Issue.Spec.TokenSecretRef].found
    /\ err # Nil
    /\ trace = <<>>
    /\ attempts >= 2

---------------------------------------------------------------------------
(* C35: the status of the sync branch *)

\* C35: after a sync-branch attempt that ends in the normal exit the
\* persisted Status.State is "open", the attempt's view of the remote state;
\* the sync branch writes the status only when the persisted state differs
\* from that view, and an attempt whose status write fails returns the error.
C35_StatusFollowsLocalView ==
    [][(ReconcileStep /\ AtSync) =>
         /\ (result' = NormalExit /\ err' = Nil) =>
              /\ Exists'
              /\ Issue'.Status.State = "open"
              /\ Succeeded(trace', "Get")
         /\ CallsOf(trace', "store.Status.Update") # {} => Issue.Status.State # "open"
         /\ Succeeded(trace', "store.Status.Update") => Issue'.Status.State = "open"
         /\ Failed(trace', "store.Status.Update") =>
              /\ err' # Nil
              /\ result' = EmptyResult
              /\ store' = store]_vars

\* a sync attempt has reopened the remotely closed issue and ended in the
\* normal exit; the status says open
C35_Witness ==
    /\ Syncable
    /\ trace = <<Call("Get", TRUE), Call("Reopen", TRUE)>>
    /\ result = NormalExit
    /\ err = Nil
    /\ Issue.Status.State = "open"
    /\ mock.issues[RemoteKey].State = "open"

---------------------------------------------------------------------------
(* C36: inspection of the MockProvider and out-of-band changes *)

\* a step that changes the MockProvider outside every attempt
OutOfBandStep == attempts' = attempts /\ mock' # mock

\* C36: GetIssue(repo, n) hands out the stored issue and changes no call
\* counter and no stored issue; a state written out-of-band to the issue it
\* handed out is the state the next Get of that issue returns, and the next
\* attempt whose Get succeeds acts on it by calling Reopen.
C36_InspectionAndOutOfBandChange ==
    [][/\ OutOfBandStep =>
            /\ Exists /\ IssueNumber > 0
            /\ GetIssue(mock, Issue.Spec.Repo, IssueNumber) # NoIssue
            /\ [mock' EXCEPT !.issues = mock.issues] = mock
            /\ DOMAIN mock'.issues = DOMAIN mock.issues
            /\ \A k \in DOMAIN mock.issues \ {RemoteKey} :
                   mock'.issues[k] = mock.issues[k]
            /\ mock'.issues[RemoteKey] =
                   [GetIssue(mock, Issue.Spec.Repo, IssueNumber) EXCEPT !.State = "closed"]
            /\ LET get == MockGet(mock', Issue.Spec.Repo, IssueNumber, FALSE)
               IN  ~get.err /\ get.ret.State = "closed"
       /\ (ReconcileStep /\ ClosedRemotely /\ Succeeded(trace', "Get")) =>
            /\ mock'.GetCalled = mock.GetCalled + 1
            /\ CallsOf(trace', "Reopen") # {}]_vars

\* the issue was inspected and closed through the inspected value before any
\* Get was made: no Get is counted, and the stored issue is closed
C36_Witness ==
    /\ Syncable
    /\ mock.issues[RemoteKey].State = "closed"
    /\ Issue.Status.State = "open"
    /\ mock.GetCalled = 0
    /\ mock.CloseCalled = 0
    /\ mock.CreateCalled = 1

---------------------------------------------------------------------------
(* C37: the end of the worker loop *)

\* worker w leaves the loop by its return statement
Exits(w) == workers[w].pc # "exited" /\ workers'[w].pc = "exited"
\* worker w comes back from queue.Get()
GetReturns(w) == workers[w].pc = "Get" /\ workers'[w] # workers[w]

\* C37 as stated: a worker leaves the loop only at a Get on the shut-down
\* queue, never while the queue is not shut down; once the queue is shut down
\* a worker that holds a key still calls Done for it, and the next Get returns
\* shutdown=true, so that the worker leaves the loop and reconciles no more.
C37_ExitsAtNextGet ==
    [][\A w \in Workers :
         /\ Exits(w) => workers[w].pc = "Get" /\ queue.shuttingDown
         /\ ~queue'.shuttingDown => workers'[w].pc # "exited"
         /\ (queue.shuttingDown /\ workers[w].pc = "Done" /\ workers'[w] # workers[w]) =>
              /\ workers'[w] = IdleWorker
              /\ workers[w].key \notin queue'.processing
         /\ (queue.shuttingDown /\ GetReturns(w)) => workers'[w].pc = "exited"]_vars

\* C37 (amended): as above, except that a Get on the shut-down queue still
\* hands out the keys that are pending, which the worker reconciles; it
\* returns shutdown=true, and the worker leaves the loop, when no key is
\* pending.
C37_ExitsWhenDrained ==
    [][\A w \in Workers :
         /\ Exits(w) => workers[w].pc = "Get" /\ queue.shuttingDown /\ queue.queue = <<>>
         /\ ~queue'.shuttingDown => workers'[w].pc # "exited"
         /\ (queue.shuttingDown /\ workers[w].pc = "Done" /\ workers'[w] # workers[w]) =>
              /\ workers'[w] = IdleWorker
              /\ workers[w].key \notin queue'.processing
         /\ (queue.shuttingDown /\ GetReturns(w)) =>
              IF queue.queue = <<>>
              THEN workers'[w].pc = "exited" /\ queue' = queue
              ELSE /\ workers'[w].pc = "reconcile"
                   /\ workers'[w].key = Head(queue.queue)]_vars

\* the queue was shut down and has drained, every worker has left the loop
\* and the Namespace that was pending has been labelled
C37_Witness ==
    /\ queue.shuttingDown
    /\ queue.queue = <<>>
    /\ queue.processing = {}
    /\ \A w \in Workers : workers[w].pc = "exited"
    /\ "test-ns" \in DOMAIN clientset
    /\ "team" \in DOMAIN clientset["test-ns"]
    /\ clientset["test-ns"]["team"] = "unassigned"

---------------------------------------------------------------------------
(* Vocabulary of the Website properties *)

\* the step is one call of the Website's Reconcile
SiteReconcileStep == reconciles' = reconciles + 1
SiteExists == websiteKey \in DOMAIN websites
Site == websites[websiteKey]
HasDeployment == websiteKey \in DOMAIN deployments
HasService == websiteKey \in DOMAIN services
\* the calls of a step in a trace, and whether a call of the step succeeded
SiteCallsOf(tr, step) == {i \in 1..Len(tr) : tr[i].step = step}
SiteSucceeded(tr, step, op) ==
    \E i \in 1..Len(tr) : tr[i].step = step /\ tr[i].op = op /\ tr[i].ok
SiteSteps == {"Deployment", "Service", "Status"}
StepRank(step) == IF step = "Deployment" THEN 1 ELSE IF step = "Service" THEN 2 ELSE 3

---------------------------------------------------------------------------
(* C38: what Reconcile leaves deployed for a Website *)

---------------------------------------------------------------------------
(* C39: the steps of the Website's Reconcile *)

\* C39: the calls of an attempt are made in the order Deployment, Service,
\* status; a call that fails is the last call of the attempt and its error is
\* returned, and an attempt without a failed call on an existing Website has
\* run the three steps and returns no error.  A status write that succeeds
\* leaves Status.AvailableReplicas equal to the available replicas of the
\* Deployment and Status.Phase Running if that number is greater than 0 and
\* Pending otherwise; without it the Website is as it was.  The attempt on a
\* Website that does not exist returns no error, makes no call and writes
\* nothing.
C39_StepsInOrder ==
    [][SiteReconcileStep =>
         LET tr == outcome'.trace
         IN  /\ outcome'.result = EmptyResult
             /\ \A i, j \in 1..Len(tr) :
                    i < j => StepRank(tr[i].step) <= StepRank(tr[j].step)
             /\ \A i \in 1..Len(tr) : ~tr[i].ok => i = Len(tr)
             /\ outcome'.err # Nil <=> (tr # <<>> /\ ~tr[Len(tr)].ok)
             /\ (SiteExists /\ outcome'.err = Nil) =>
                    \A step \in SiteSteps : SiteCallsOf(tr, step) # {}
             /\ IF SiteSucceeded(tr, "Status", "Update")
                THEN /\ websiteKey \in DOMAIN deployments'
                     /\ websites'[websiteKey].Status.AvailableReplicas =
                          deployments'[websiteKey].AvailableReplicas
                     /\ websites'[websiteKey].Status.Phase =
                          (IF deployments'[websiteKey].AvailableReplicas > 0
                           THEN "Running" ELSE "Pending")
                     /\ websites'[websiteKey].Spec = Site.Spec
                ELSE websites' = websites
             /\ ~SiteExists =>
                    /\ outcome'.err = Nil
                    /\ tr = <<>>
                    /\ websites' = websites
                    /\ deployments' = deployments
                    /\ services' = services]_vars

\* an attempt has run the three steps on an existing Deployment with an
\* available replica and has written Running
C39_Witness ==
    /\ SiteExists /\ HasDeployment
    /\ outcome.err = Nil
    /\ Len(outcome.trace) = 5
    /\ outcome.trace[5] = SiteCall("Status", "Update", TRUE)
    /\ Site.Status.Phase = "Running"
    /\ Site.Status.AvailableReplicas = 1
    /\ deployments[websiteKey].AvailableReplicas = 1

=============================================================================
